---- MODULE Spec2Model ----
(***************************************************************************)
(* Layout engine of the ER-diagram generator (js/layout/*.js): component   *)
(* spread, initial placement, arrange (radial satellite) layout and        *)
(* force-align (chain) layout, with the animation driver that applies the  *)
(* target map.                                                             *)
(*                                                                         *)
(* Numbers are fixed-point: lengths in 1/Unit pixel, angles in 1/TrigScale *)
(* radian, sines and cosines scaled by TrigScale.  Node ids are small      *)
(* naturals whose order is the localeCompare order of their names (IdStr). *)
(***************************************************************************)
EXTENDS Integers, Sequences, FiniteSets, TLC

\* ------------------------------------------------------------ fixed point
Unit == 10 ^ 1
TrigScale == 10 ^ 4
PI == 31416
TwoPi == 2 * PI
HalfPi == PI \div 2

Abs(a) == IF a < 0 THEN -a ELSE a
Sign(a) == IF a > 0 THEN 1 ELSE IF a < 0 THEN -1 ELSE 0
Max(a, b) == IF a >= b THEN a ELSE b
Min(a, b) == IF a <= b THEN a ELSE b
\* a / b rounded to the nearest integer, symmetric about zero (b > 0)
Div(a, b) == IF a >= 0 THEN (a + b \div 2) \div b ELSE -(((-a) + b \div 2) \div b)
\* a length given in pixels, and a factor given in percent
Px(p) == p * Unit
Pct(a, p) == Div(a * p, 100)

RECURSIVE SqrtIter(_, _)
SqrtIter(n, x) == LET y == (x + n \div x) \div 2 IN IF y >= x THEN x ELSE SqrtIter(n, y)
Sqrt(n) == IF n < 2 THEN n
           ELSE LET r == SqrtIter(n, IF n > 1000000 THEN 46341 ELSE 1001)
                IN IF n - r * r > r THEN r + 1 ELSE r

RECURSIVE Hypot(_, _)
Hypot(dx, dy) == IF Abs(dx) > 30000 \/ Abs(dy) > 30000
                 THEN 2 * Hypot(Div(dx, 2), Div(dy, 2))
                 ELSE Sqrt(dx * dx + dy * dy)

\* term/d1 - term'/d2 + ... with each term the previous one times x2
RECURSIVE Taylor(_, _, _, _)
Taylor(term, x2, dens, sgn) ==
    IF dens = <<>> THEN 0
    ELSE sgn * Div(term, Head(dens)) + Taylor(Div(term * x2, TrigScale), x2, Tail(dens), -sgn)
SinT(x) == Taylor(x, Div(x * x, TrigScale), <<1, 6, 120, 5040>>, 1)
CosT(x) == Taylor(TrigScale, Div(x * x, TrigScale), <<1, 2, 24, 720, 40320>>, 1)
SinQ(x) == IF 2 * x <= HalfPi THEN SinT(x) ELSE CosT(HalfPi - x)

\* utils.js normalizeAngle: a % 2pi, plus 2pi when negative
normalizeAngle(a) == a % TwoPi

\* the sine of an angle n of [0, 2pi) from the sine over the first quadrant
SinN(n) == (IF n <= PI THEN 1 ELSE -1)
           * SinQ(IF n <= HalfPi THEN n
                  ELSE IF n <= PI THEN PI - n
                  ELSE IF n <= PI + HalfPi THEN n - PI
                  ELSE TwoPi - n)
Sin(a) == SinN(normalizeAngle(a))
Cos(a) == Sin(a + HalfPi)

AtanQ(z) == Div(z * 7854, TrigScale)
            + Div(Div(z * (TrigScale - z), TrigScale) * (2447 + Div(663 * z, TrigScale)),
                  TrigScale)
Atan2Raw(y, x) ==
    (IF y >= 0 THEN 1 ELSE -1)
    * (IF x >= 0 THEN 0 ELSE PI)
    + (IF (y >= 0) = (x >= 0) THEN 1 ELSE -1)
      * (IF Abs(x) >= Abs(y) THEN AtanQ(Div(Abs(y) * TrigScale, Abs(x)))
         ELSE HalfPi - AtanQ(Div(Abs(x) * TrigScale, Abs(y))))
\* one Newton correction of the estimate t0 with cosine c and sine s
Atan2Step(xs, ys, t0, c, s) ==
    IF Div(xs * c + ys * s, TrigScale) <= 0 THEN t0
    ELSE t0 + Div(ys * c - xs * s, Div(xs * c + ys * s, TrigScale))
Atan2Newton(xs, ys, t0) == Atan2Step(xs, ys, t0, Cos(t0), Sin(t0))
Atan2Unit(xs, ys) == Atan2Newton(xs, ys, Atan2Raw(ys, xs))
\* Math.atan2 in (-pi, pi]: a polynomial estimate and one Newton correction
Atan2(y, x) ==
    IF x = 0 /\ y = 0 THEN 0
    ELSE Atan2Unit(Div(x * TrigScale, Max(Abs(x), Abs(y))),
                   Div(y * TrigScale, Max(Abs(x), Abs(y))))

\* ------------------------------------------------------------ sequences
Range(s) == {s[i] : i \in DOMAIN s}
RECURSIVE SeqSum(_)
SeqSum(s) == IF s = <<>> THEN 0 ELSE Head(s) + SeqSum(Tail(s))
RECURSIVE SeqMax(_)
SeqMax(s) == IF Len(s) = 1 THEN s[1] ELSE Max(Head(s), SeqMax(Tail(s)))
RECURSIVE SeqMin(_)
SeqMin(s) == IF Len(s) = 1 THEN s[1] ELSE Min(Head(s), SeqMin(Tail(s)))
RECURSIVE Filter(_, _)
Filter(s, keep) == IF s = <<>> THEN <<>>
                   ELSE IF Head(s) \in keep THEN <<Head(s)>> \o Filter(Tail(s), keep)
                   ELSE Filter(Tail(s), keep)
\* the elements of a set of integers in increasing order (Array.sort by localeCompare of ids)
RECURSIVE SortedSeq(_)
SortedSeq(S) == IF S = {} THEN <<>>
                ELSE LET m == CHOOSE x \in S : \A y \in S : x <= y
                     IN <<m>> \o SortedSeq(S \ {m})
\* append keeping the first occurrence only (Set.add)
AddOnce(s, x) == IF x \in Range(s) THEN s ELSE Append(s, x)
IndexOf(s, x) == CHOOSE i \in DOMAIN s : s[i] = x
\* stable insertion sort of items by an integer key (Array.prototype.sort with a - b)
RECURSIVE InsertByKey(_, _, _)
InsertByKey(s, x, key) ==
    IF s = <<>> THEN <<x>>
    ELSE IF key[x] < key[Head(s)] THEN <<x>> \o s
    ELSE <<Head(s)>> \o InsertByKey(Tail(s), x, key)
RECURSIVE SortByKey(_, _)
SortByKey(s, key) == IF s = <<>> THEN <<>>
                     ELSE InsertByKey(SortByKey(SubSeq(s, 1, Len(s) - 1), key), s[Len(s)], key)

\* ------------------------------------------------------------ maps
EmptyMap == [k \in {} |-> 0]
Has(m, k) == k \in DOMAIN m
Put(m, k, v) == [x \in (DOMAIN m) \cup {k} |-> IF x = k THEN v ELSE m[x]]
Pt(x, y) == [x |-> x, y |-> y]
Dist(p, q) == Hypot(q.x - p.x, q.y - p.y)

\* ------------------------------------------------------------ inputs
\* A node of the graph snapshot: model fields id, nodeType, parentEntity and the
\* width and height of its rendered bounding box.  parentEntity 0 is a missing one.
Node(id, type, parent, w, h) ==
    [id |-> id, nodeType |-> type, parentEntity |-> parent, w |-> Px(w), h |-> Px(h)]
\* entity sizes of the size variants: 1 ordinary, 2 first entity larger, 3 very large,
\* 4 and 5 large (half diagonals of 350 and 390 px)
E(id, sz) == IF sz = 3 THEN Node(id, "entity", 0, 900, 200)
             ELSE IF sz = 4 THEN Node(id, "entity", 0, 560, 420)
             ELSE IF sz = 5 THEN Node(id, "entity", 0, 624, 468)
             ELSE IF sz = 2 /\ id = 1 THEN Node(id, "entity", 0, 240, 120)
             ELSE Node(id, "entity", 0, 120, 60)
A(id, parent) == Node(id, "attribute", parent, 80, 40)
R(id) == Node(id, "relationship", 0, 80, 50)
Edge(s, t) == [source |-> s, target |-> t]

MaxShape == 19
ShapeNodes(k, sz) ==
    CASE k = 1 -> <<>>
      [] k = 2 -> <<E(1, sz)>>
      [] k = 3 -> <<A(1, 9)>>
      [] k = 4 -> <<R(1)>>
      [] k = 5 -> <<E(1, sz), A(2, 1)>>
      [] k = 6 -> <<E(1, sz), E(2, sz), R(3), A(4, 1), A(5, 1)>>
      [] k = 7 -> <<E(3, sz), E(1, sz), E(2, sz)>>
      [] k = 8 -> <<E(1, sz), E(2, sz), R(3), A(4, 0)>>
      [] k = 9 -> <<E(1, sz), R(2), A(3, 1)>>
      [] k = 10 -> <<E(1, sz), E(2, sz), E(3, sz), R(4)>>
      [] k = 11 -> <<E(1, sz), E(2, sz), R(4), R(3)>>
      [] k = 12 -> <<R(1), R(2)>>
      [] k = 13 -> <<E(1, sz), E(2, sz), E(3, sz), E(4, sz), E(5, sz)>>
      [] k = 14 -> <<E(1, sz), R(2), E(3, sz), R(4), E(5, sz), R(6), E(7, sz), A(8, 1)>>
      [] k = 15 -> <<R(1), R(2), R(3), R(4), R(5)>>
      [] k = 16 -> <<E(1, sz), E(3, sz), E(5, sz), E(7, sz), R(2), R(4), R(6), A(8, 1), A(9, 1)>>
      [] k = 17 -> <<E(1, sz), E(2, sz), E(3, sz), R(4), A(5, 2), A(6, 2), A(7, 2)>>
      [] k = 18 -> <<E(1, sz), E(2, sz), E(3, sz), R(4), E(5, sz)>>
      [] k = 19 -> <<E(1, sz), E(2, sz), E(3, sz), R(4), A(5, 3), A(6, 3)>>
      [] k = 20 -> <<E(1, sz), E(2, sz), E(3, sz), E(4, sz)>>
      [] OTHER -> <<E(2, sz), A(1, 2), A(3, 7)>>
ShapeEdges(k) ==
    CASE k = 5 -> <<Edge(1, 2)>>
      [] k = 6 -> <<Edge(1, 3), Edge(3, 2), Edge(1, 4), Edge(5, 1)>>
      [] k = 8 -> <<Edge(3, 1), Edge(2, 3)>>
      [] k = 9 -> <<Edge(1, 2), Edge(1, 3)>>
      [] k = 10 -> <<Edge(1, 4), Edge(2, 4), Edge(3, 4)>>
      [] k = 11 -> <<Edge(1, 3), Edge(2, 3), Edge(2, 4), Edge(4, 1)>>
      [] k = 14 -> <<Edge(1, 2), Edge(2, 3), Edge(1, 4), Edge(4, 5), Edge(1, 6), Edge(6, 7), Edge(1, 8)>>
      [] k = 15 -> <<Edge(1, 2), Edge(1, 3), Edge(1, 4), Edge(1, 5)>>
      [] k = 16 -> <<Edge(1, 2), Edge(2, 3), Edge(1, 4), Edge(4, 5), Edge(1, 6), Edge(6, 7), Edge(1, 8),
                     Edge(1, 9)>>
      [] k = 17 -> <<Edge(1, 4), Edge(2, 4), Edge(3, 4), Edge(2, 5), Edge(2, 6), Edge(2, 7)>>
      [] k = 18 -> <<Edge(3, 4)>>
      [] k = 19 -> <<Edge(1, 4), Edge(2, 4), Edge(3, 4), Edge(3, 5), Edge(3, 6)>>
      [] k = 21 -> <<Edge(2, 1)>>
      [] OTHER -> <<>>
\* initial positions: placement 1 puts every node on the same point, placement 2 makes
\* neighbours in the listing overlap, placement 4 puts the first node in the middle of the
\* container and the others around it, placement 3 puts the i-th listed node on a spiral
\* around the middle, a third of a turn and five degrees further each
SpiralTurn == Div(TwoPi, 3) + 873
StartPoint(i, pl) ==
    CASE pl = 1 -> Pt(Px(300), Px(200))
      [] pl = 2 -> Pt(Px(300) + (i - 1) * Px(30), Px(200) + (i - 1) * Px(10))
      [] pl = 4 -> IF i = 1 THEN Pt(Px(600), Px(400))
                   ELSE Pt(Px(600) + Div(Px(300) * Cos((i - 2) * SpiralTurn), TrigScale),
                           Px(400) + Div(Px(300) * Sin((i - 2) * SpiralTurn), TrigScale))
      [] OTHER -> Pt(Px(600) + Div((i - 1) * Px(80) * Cos((i - 1) * SpiralTurn), TrigScale),
                     Px(400) + Div((i - 1) * Px(80) * Sin((i - 1) * SpiralTurn), TrigScale))
StartPos(ns, pl) ==
    [id \in {ns[i].id : i \in DOMAIN ns} |->
        StartPoint(CHOOSE j \in DOMAIN ns : ns[j].id = id, pl)]
Scenarios == {[shape |-> k, place |-> 3, size |-> 1] : k \in 1..MaxShape}
             \cup {[shape |-> k, place |-> pl, size |-> 1] : k \in {6, 8, 12, 15}, pl \in {1, 2}}
             \cup {[shape |-> 16, place |-> 4, size |-> 1]}
             \cup {[shape |-> k, place |-> 3, size |-> sz] : k \in {6, 7}, sz \in {2, 3}}
             \cup {[shape |-> 7, place |-> 3, size |-> sz] : sz \in {4, 5}}

\* ------------------------------------------------------------ state
VARIABLES
    scn,              \* the loaded input: shape, placement and size variant
    nodes,            \* graph.getNodes(): node models in listing order
    edges,            \* graph.getEdges(): edge models in listing order
    pos,              \* live model position of every node, id -> {x, y}
    seed,             \* layout seed handed to the initial placement
    pc,               \* where the running layout call stands
    fn,               \* the layout function called last
    round,            \* how many times the input has been loaded
    calls,            \* layout calls made since the input was loaded
    iter,             \* passes made by each capped loop of the running call
    entityPositions,  \* arrange: private copy of the entity centres
    targets,          \* arrange, spread: the target map under construction
    relAnchors,       \* arrange: ideal anchor of every two-entity relationship
    relPositions,     \* arrange: relaxed relationship positions
    baseRing,         \* arrange: ring radius of every entity
    systemRadius,     \* arrange: ring radius plus largest satellite radius
    adjustPasses,     \* arrange: most passes taken by a count-adjustment loop
    globalTargets,    \* force-align: the tiled target map
    sideHint,         \* force-align: side sign of core nodes
    mainChainIds,     \* force-align: ids on some component's main chain
    mainAnchorPos,    \* force-align: recorded main-chain positions
    chainPos,         \* force-align: chain coordinate plus tiling offset of main-chain ids
    pushLog,          \* per traversal of the last call, the ids pushed on its stack or queue
    placed,           \* spread, initial placement: radius and placed centre per component
    handed,           \* the target map given to animateNodesToTargets, if any
    finishCalls,      \* completions signalled (onFinish, view fit) by the last call
    firstOut,         \* what each function produced in the first round
    args,             \* the arguments of the utility function under call
    returned,         \* what its successive calls on these arguments returned
    destroyed,        \* graph.destroyed
    autoPaint,        \* the graph's auto-paint switch
    matrix,           \* the view matrix of the graph's root group: zoom and offset
    painted,          \* how often graph.paint() was called
    frameQueue,       \* callbacks given to requestAnimationFrame, not yet run
    now,              \* performance.now() in ms
    started,          \* the calls made to the animation functions, by kind
    finished,         \* the calls whose onFinish ran, in the order it ran
    editingNode,      \* editor: the node under edit, 0 for null
    editInput,        \* editor: the input element of the edit, 0 for null
    container,        \* editor: the input elements attached to the container
    labels,           \* editor: label of every node
    timers,           \* editor: setTimeout callbacks not yet run, oldest first
    sessions          \* editor: the edits started so far and how each one ended

vars == <<scn, nodes, edges, pos, seed, pc, fn, round, calls, iter, entityPositions, targets,
          relAnchors, relPositions, baseRing, systemRadius, adjustPasses, globalTargets,
          sideHint, mainChainIds, mainAnchorPos, chainPos,
          pushLog, placed, handed, finishCalls, firstOut, args, returned,
          destroyed, autoPaint, matrix, painted, frameQueue, now, started, finished,
          editingNode, editInput, container, labels, timers, sessions>>
animVars == <<destroyed, autoPaint, matrix, painted, frameQueue, now, started, finished>>
editVars == <<editingNode, editInput, container, labels, timers, sessions>>

\* zoom factors are kept to a thousandth
ZoomScale == 10 ^ 3
\* container (graph.get('width'), graph.get('height'), containerEl.offsetWidth)
graphWidth == Px(1200)
graphHeight == Px(800)

\* ------------------------------------------------------------ graph access
NodeIds(ns) == [i \in DOMAIN ns |-> ns[i].id]
IdSet(ns) == {ns[i].id : i \in DOMAIN ns}
\* graph.findById / nodeMap.get
NodeOf(ns, id) == ns[CHOOSE i \in DOMAIN ns : ns[i].id = id]
TypeOf(ns, id) == IF id \in IdSet(ns) THEN NodeOf(ns, id).nodeType ELSE "none"
RECURSIVE IdsOfType(_, _)
IdsOfType(ns, type) ==
    IF ns = <<>> THEN <<>>
    ELSE IF Head(ns).nodeType = type THEN <<Head(ns).id>> \o IdsOfType(Tail(ns), type)
    ELSE IdsOfType(Tail(ns), type)
\* half the diagonal of the bounding box
getRadius(ns, id) == Div(Hypot(NodeOf(ns, id).w, NodeOf(ns, id).h), 2)
\* node.getBBox(): the box of the node's size centred on its model position
BBox(ns, p, id) ==
    LET n == NodeOf(ns, id)
    IN [minX |-> p[id].x - Div(n.w, 2), maxX |-> p[id].x + Div(n.w, 2),
        minY |-> p[id].y - Div(n.h, 2), maxY |-> p[id].y + Div(n.h, 2),
        centerX |-> p[id].x, centerY |-> p[id].y]

\* ------------------------------------------------------------ adjacency, components
\* undirected adjacency as id -> neighbours in insertion order (Map of Sets)
AddNeighbour(adj, a, b) == Put(adj, a, AddOnce(IF Has(adj, a) THEN adj[a] ELSE <<>>, b))
RECURSIVE DirectedAdj(_, _)
DirectedAdj(es, adj) ==
    IF es = <<>> THEN adj
    ELSE DirectedAdj(Tail(es), AddNeighbour(adj, Head(es).source, Head(es).target))
RECURSIVE BuildAdj(_, _)
BuildAdj(es, adj) ==
    IF es = <<>> THEN adj
    ELSE LET e == Head(es)
         IN BuildAdj(Tail(es), AddNeighbour(AddNeighbour(adj, e.source, e.target),
                                            e.target, e.source))
\* the neighbours of every id sorted by localeCompare, as spread and initial placement use them
SortedAdj(es) == LET adj == BuildAdj(es, EmptyMap)
                 IN [id \in DOMAIN adj |-> SortedSeq(Range(adj[id]))]

\* one depth-first walk with an explicit stack; a neighbour is marked when pushed
RECURSIVE DfsLoop(_, _, _, _, _, _)
DfsLoop(stack, visited, comp, pushes, adj, found) ==
    IF stack = <<>> THEN [comp |-> comp, visited |-> visited, pushes |-> pushes]
    ELSE LET cur == stack[Len(stack)]
             rest == SubSeq(stack, 1, Len(stack) - 1)
             comp2 == IF cur \in found THEN Append(comp, cur) ELSE comp
             fresh == IF Has(adj, cur) THEN Filter(adj[cur], (DOMAIN adj \cup found) \ visited)
                      ELSE <<>>
         IN DfsLoop(rest \o fresh, visited \cup Range(fresh), comp2, pushes \o fresh, adj, found)
RECURSIVE CompLoop(_, _, _, _, _, _)
CompLoop(order, visited, comps, pushes, adj, found) ==
    IF order = <<>> THEN [components |-> comps, pushes |-> pushes]
    ELSE LET id == Head(order)
         IN IF id \in visited THEN CompLoop(Tail(order), visited, comps, pushes, adj, found)
            ELSE LET w == DfsLoop(<<id>>, visited \cup {id}, <<>>, Append(pushes, id), adj, found)
                 IN CompLoop(Tail(order), w.visited,
                             IF w.comp = <<>> THEN comps ELSE Append(comps, w.comp),
                             w.pushes, adj, found)
\* connected components, walked from the start ids in the given order
Components(order, adj, found) == CompLoop(order, {}, <<>>, <<>>, adj, found)
\* the walk of spread and of initial placement: start ids and neighbours sorted by id
SortedWalk(ns, es) == Components(SortedSeq(IdSet(ns)), SortedAdj(es), IdSet(ns))

\* ------------------------------------------------------------ utils.js
\* the name of a node id and of a side sign, as character codes
IdStr(id) == <<110, 48 + id>>
SignStr(sign) == IF sign < 0 THEN <<45, 49>> ELSE <<49>>
\* a 32-bit integer as two 16-bit limbs (two's complement)
Limbs(v) == IF v >= 0 THEN [hi |-> (v \div 65536) % 65536, lo |-> v % 65536]
            ELSE [hi |-> 65535 - ((-(v + 1)) \div 65536), lo |-> 65535 - ((-(v + 1)) % 65536)]
\* hash = ((hash << 5) - hash) + char; hash = hash & hash
RECURSIVE HashLoop(_, _)
HashLoop(str, h) ==
    IF str = <<>> THEN h
    ELSE LET lo2 == 31 * h.lo + Head(str)
             hi2 == 31 * h.hi + lo2 \div 65536
         IN HashLoop(Tail(str), [hi |-> hi2 % 65536, lo |-> lo2 % 65536])
\* the folded value handed back as it is, sign bit included
foldedHash(str, extraSeed) == HashLoop(str, Limbs(extraSeed))
\* Math.abs of the folded value; the magnitude, again as limbs (2^31 has hi = 32768)
deterministicHash(str, extraSeed) ==
    LET h == HashLoop(str, Limbs(extraSeed))
    IN IF h.hi < 32768 THEN h
       ELSE [hi |-> (65535 - h.hi) + (IF h.lo = 0 THEN 1 ELSE 0), lo |-> (65536 - h.lo) % 65536]
HashMod(h, m) == ((h.hi % m) * (65536 % m) + h.lo) % m
\* a jitter that differs from one load of the input to the next
RoundRandom(seedMod, extraSeed) == ((Sin(seedMod + extraSeed + round * 1000) % 1000) - 500)
\* (x - floor(x)) - 0.5 of x = sin(seed + extraSeed * 1000) * 10000, in thousandths; the
\* sine carries four decimals here, so the fraction is taken three decimals higher
deterministicRandom(seedMod, extraSeed) ==
    LET rad == (seedMod + ((extraSeed * 1000) % TwoPi)) % TwoPi
        ang == (rad * TrigScale) % TwoPi
    IN (Sin(ang) % 1000) - 500

\* ------------------------------------------------------------ componentSpread.js
\* bounding-circle radius and centroid of one component
SpreadMeta(ns, p, comp) ==
    LET box == [i \in DOMAIN comp |-> BBox(ns, p, comp[i])]
        width == Max(Px(40), SeqMax([i \in DOMAIN comp |-> box[i].maxX])
                             - SeqMin([i \in DOMAIN comp |-> box[i].minX]))
        height == Max(Px(40), SeqMax([i \in DOMAIN comp |-> box[i].maxY])
                              - SeqMin([i \in DOMAIN comp |-> box[i].minY]))
    IN [comp |-> comp,
        radius |-> Div(Hypot(width, height), 2) + Px(40),
        center |-> Pt(Div(SeqSum([i \in DOMAIN comp |-> box[i].centerX]), Len(comp)),
                      Div(SeqSum([i \in DOMAIN comp |-> box[i].centerY]), Len(comp)))]
SpreadOrbit(totalSpan, maxRadius, gap) ==
    Min(Max(Max(Div(totalSpan * TrigScale, TwoPi), maxRadius + gap + Px(40)), Px(240)), Px(520))
\* the index of the component a node belongs to
CompIndex(components, id) == CHOOSE i \in DOMAIN components : id \in Range(components[i])
\* a node carried along without the cross terms of the rotation
SpreadTargetScaled(at, center, targetCenter, cosA, sinA) ==
    Pt(targetCenter.x + Div((at.x - center.x) * cosA, TrigScale),
       targetCenter.y + Div((at.y - center.y) * cosA, TrigScale))
\* a node carried along with its component: rotated about the centroid by midAngle + pi/2
SpreadTarget(at, center, targetCenter, cosA, sinA) ==
    Pt(targetCenter.x + Div((at.x - center.x) * cosA - (at.y - center.y) * sinA, TrigScale),
       targetCenter.y + Div((at.x - center.x) * sinA + (at.y - center.y) * cosA, TrigScale))
\* the centre a component is moved to
SpreadCentre(orbitRadius, midAngle) ==
    Pt(Div(graphWidth, 2) + Div(orbitRadius * Cos(midAngle), TrigScale),
       Div(graphHeight, 2) + Div(orbitRadius * Sin(midAngle), TrigScale))
\* the targets of two or more components with the given radii and centroids
SpreadTargets(ns, p, components, pushes, compMeta) ==
    LET n == Len(components)
        gap == Px(50)
        span == [i \in 1..n |-> compMeta[i].radius * 2 + gap]
        totalSpan == SeqSum(span)
        orbitRadius == SpreadOrbit(totalSpan, SeqMax([i \in 1..n |-> compMeta[i].radius]), gap)
        angleSpan == [i \in 1..n |-> Div(span[i] * TwoPi, totalSpan)]
        midAngle == [i \in 1..n |->
                        SeqSum(SubSeq(angleSpan, 1, i - 1)) - HalfPi + Div(angleSpan[i], 2)]
    IN [noop |-> FALSE, pushes |-> pushes,
        targets |-> [id \in IdSet(ns) |->
            SpreadTarget(p[id], compMeta[CompIndex(components, id)].center,
                         SpreadCentre(orbitRadius, midAngle[CompIndex(components, id)]),
                         Cos(midAngle[CompIndex(components, id)] + HalfPi),
                         Sin(midAngle[CompIndex(components, id)] + HalfPi))],
        placed |-> [i \in 1..n |->
            [radius |-> compMeta[i].radius, center |-> SpreadCentre(orbitRadius, midAngle[i]),
             angleSpan |-> angleSpan[i], members |-> components[i]]],
        orbit |-> orbitRadius]
\* the components found by the walk, spread however many there are
SpreadAny(ns, p, walk) ==
    SpreadTargets(ns, p, walk.components, walk.pushes,
                  [i \in DOMAIN walk.components |-> SpreadMeta(ns, p, walk.components[i])])
\* the components found by the walk, spread when there are two or more
SpreadWalk(ns, p, walk) ==
    IF Len(walk.components) < 2 THEN [noop |-> TRUE, pushes |-> walk.pushes]
    ELSE SpreadTargets(ns, p, walk.components, walk.pushes,
                       [i \in DOMAIN walk.components |-> SpreadMeta(ns, p, walk.components[i])])
\* the whole computation of spreadDisconnectedComponents up to the hand-over
spreadDisconnectedComponents(ns, es, p) ==
    IF Len(ns) < 2 THEN [noop |-> TRUE, pushes |-> <<>>]
    ELSE SpreadWalk(ns, p, SortedWalk(ns, es))

\* ------------------------------------------------------------ initialLayout.js
approxRadius(type) ==
    LET size == IF type = "entity" THEN Px(140) ELSE Px(90)
    IN Div(Hypot(size, size), 2) + Px(20)
InitialOrbit(perim, gap, count) ==
    Min(Max(Px(240), Div((perim + gap * count) * TrigScale, TwoPi)), Px(520))
\* a node scattered about the centre of its component by a hash of its id
InitialPoint(sd, centre, reach, hash) ==
    Pt(centre.x + Div(deterministicRandom(hash, sd) * reach, 1000),
       centre.y + Div(deterministicRandom((hash + 1000) % TwoPi, sd) * reach, 1000))
\* the centre of a component on the orbit
InitialCentre(orbit, angle) ==
    Pt(Div(graphWidth, 2) + Div(orbit * Cos(angle), TrigScale),
       Div(graphHeight, 2) + Div(orbit * Sin(angle), TrigScale))
\* the positions of two or more components with the given radii
InitialPositions(ns, sd, components, pushes, radius) ==
    LET n == Len(components)
        gap == Px(100)
        orbit == InitialOrbit(SeqSum([i \in 1..n |-> radius[i] * 2]), gap, n)
        angleStep == Div(TwoPi, n)
    IN [noop |-> FALSE, pushes |-> pushes,
        pos |-> [id \in IdSet(ns) |->
            InitialPoint(sd,
                InitialCentre(orbit, (CompIndex(components, id) - 1) * angleStep - HalfPi),
                Max(Px(40), Pct(radius[CompIndex(components, id)], 40)),
                HashMod(deterministicHash(IdStr(id), sd), TwoPi))],
        placed |-> [i \in 1..n |->
            [radius |-> radius[i], center |-> InitialCentre(orbit, (i - 1) * angleStep - HalfPi),
             angleSpan |-> angleStep, members |-> components[i]]],
        orbit |-> orbit]
\* the components found by the walk, placed when there are two or more
InitialWalk(ns, sd, walk) ==
    IF Len(walk.components) < 2 THEN [noop |-> TRUE, pushes |-> walk.pushes]
    ELSE InitialPositions(ns, sd, walk.components, walk.pushes,
             [i \in DOMAIN walk.components |->
                 Max(Px(30), SeqMax([j \in DOMAIN walk.components[i] |->
                                        approxRadius(TypeOf(ns, walk.components[i][j]))]))
                 + Max(0, Len(walk.components[i]) - 6) * Px(6)])
\* the whole of applyInitialComponentPositions: the positions it leaves in the node data
applyInitialComponentPositions(ns, es, p, sd) ==
    IF Len(ns) < 2 THEN [noop |-> TRUE, pushes |-> <<>>]
    ELSE InitialWalk(ns, sd, SortedWalk(ns, es))

\* ------------------------------------------------------------ arrangeLayout.js: structure
\* relationship id -> the entities it is connected to, in insertion order (Map of Sets)
RECURSIVE BuildConnections(_, _, _)
BuildConnections(ns, es, conn) ==
    IF es = <<>> THEN conn
    ELSE LET e == Head(es)
             sType == TypeOf(ns, e.source)
             tType == TypeOf(ns, e.target)
         IN BuildConnections(ns, Tail(es),
                IF sType = "relationship" /\ tType = "entity"
                    THEN AddNeighbour(conn, e.source, e.target)
                ELSE IF tType = "relationship" /\ sType = "entity"
                    THEN AddNeighbour(conn, e.target, e.source)
                ELSE conn)
relationshipConnections(ns, es) == BuildConnections(ns, es, EmptyMap)
\* the first two entities of a relationship that has two or more
FirstTwo(conn, rid) == IF Has(conn, rid) /\ Len(conn[rid]) >= 2 THEN SubSeq(conn[rid], 1, 2) ELSE <<>>
\* Array.from(connected) when a relationship has exactly two entities, else <<>>
TwoEntities(conn, rid) == IF Has(conn, rid) /\ Len(conn[rid]) = 2 THEN conn[rid] ELSE <<>>

\* connected.find(n => n !== entityNode) || null, null being 0
OtherEntity(connected, eid) ==
    LET rest == Filter(connected, Range(connected) \ {eid})
    IN IF rest = <<>> THEN 0 ELSE rest[1]
\* the satellites of an entity: its attributes, then the relationships touching it
RECURSIVE AttrSatellites(_, _)
AttrSatellites(ns, eid) ==
    IF ns = <<>> THEN <<>>
    ELSE (IF Head(ns).nodeType = "attribute" /\ Head(ns).parentEntity = eid
          THEN <<[node |-> Head(ns).id, type |-> "attr", otherEntity |-> 0]>> ELSE <<>>)
         \o AttrSatellites(Tail(ns), eid)
RECURSIVE RelSatellites(_, _, _)
RelSatellites(rels, conn, eid) ==
    IF rels = <<>> THEN <<>>
    ELSE (IF Has(conn, Head(rels)) /\ eid \in Range(conn[Head(rels)])
          THEN <<[node |-> Head(rels), type |-> "rel",
                  otherEntity |-> OtherEntity(conn[Head(rels)], eid)]>> ELSE <<>>)
         \o RelSatellites(Tail(rels), conn, eid)
Satellites(ns, es, eid) ==
    AttrSatellites(ns, eid)
    \o RelSatellites(IdsOfType(ns, "relationship"), relationshipConnections(ns, es), eid)

\* the ring radius of an entity and the largest satellite radius around it
maxSatelliteRadius(ns, es, eid) ==
    LET sat == Satellites(ns, es, eid)
    IN IF sat = <<>> THEN Px(30) ELSE SeqMax([i \in DOMAIN sat |-> getRadius(ns, sat[i].node)])
RingRadius(ns, es, eid) ==
    LET count == Len(Satellites(ns, es, eid))
        maxSat == maxSatelliteRadius(ns, es, eid)
        ringR == getRadius(ns, eid) + maxSat + Px(25)
        requiredRingR == Div(count * (maxSat * 2 + Px(18)) * TrigScale, TwoPi)
    IN IF count > 1 THEN Max(ringR, requiredRingR) ELSE ringR
SystemRadius(ns, es, eid) == RingRadius(ns, es, eid) + maxSatelliteRadius(ns, es, eid)
safeGap == 50

\* ------------------------------------------------------------ arrangeLayout.js: entity relaxation
\* move a and b apart by move along the a -> b direction (d = b - a, dist its length)
Apart(ep, a, b, dx, dy, dist, move) ==
    [ep EXCEPT ![a] = Pt(ep[a].x - Div(dx * move, dist), ep[a].y - Div(dy * move, dist)),
               ![b] = Pt(ep[b].x + Div(dx * move, dist), ep[b].y + Div(dy * move, dist))]
\* Math.hypot(dx, dy) || 1
HypotOr1(dx, dy) == IF Hypot(dx, dy) = 0 THEN Px(1) ELSE Hypot(dx, dy)
\* 1. attraction along every two-entity relationship
RECURSIVE SpringLoop(_, _, _, _)
SpringLoop(rels, conn, sysR, st) ==
    IF rels = <<>> THEN st
    ELSE LET pair == TwoEntities(conn, Head(rels))
         IN IF pair = <<>> THEN SpringLoop(Tail(rels), conn, sysR, st)
            ELSE LET idA == pair[1]
                     idB == pair[2]
                     dx == st.ep[idB].x - st.ep[idA].x
                     dy == st.ep[idB].y - st.ep[idA].y
                     dist == HypotOr1(dx, dy)
                     diff == sysR[idA] + sysR[idB] + Px(safeGap) - dist
                     move == Div(diff, 10)
                 IN IF Abs(diff) < Px(1) THEN SpringLoop(Tail(rels), conn, sysR, st)
                    ELSE SpringLoop(Tail(rels), conn, sysR,
                             [ep |-> Apart(st.ep, idA, idB, dx, dy, dist, move),
                              maxMove |-> Max(st.maxMove, Abs(move))])
\* 2. repulsion between every two entities whose systems overlap
\* the index pairs i < j in the order of the nested for loops
RECURSIVE PairsFrom(_, _, _)
PairsFrom(i, j, n) == IF i >= n THEN <<>>
                      ELSE IF j > n THEN PairsFrom(i + 1, i + 2, n)
                      ELSE <<(<<i, j>>)>> \o PairsFrom(i, j + 1, n)
PairsOf(n) == PairsFrom(1, 2, n)
RECURSIVE RepelLoop(_, _, _, _)
RepelLoop(pairs, ids, sysR, st) ==
    IF pairs = <<>> THEN st
    ELSE LET idA == ids[Head(pairs)[1]]
             idB == ids[Head(pairs)[2]]
             dx == st.ep[idB].x - st.ep[idA].x
             dy == st.ep[idB].y - st.ep[idA].y
             dist == HypotOr1(dx, dy)
             minDesc == sysR[idA] + sysR[idB] + Px(safeGap)
             move == Div(minDesc - dist, 4)
         IN IF dist < minDesc
            THEN RepelLoop(Tail(pairs), ids, sysR,
                     [ep |-> Apart(st.ep, idA, idB, dx, dy, dist, move),
                      maxMove |-> Max(st.maxMove, move)])
            ELSE RepelLoop(Tail(pairs), ids, sysR, st)
\* one pass of the relaxation loop: the new entity positions and the largest move
RelaxPass(ns, es, sysR, ep) ==
    LET entityIds == IdsOfType(ns, "entity")
        sprung == SpringLoop(IdsOfType(ns, "relationship"), relationshipConnections(ns, es),
                             sysR, [ep |-> ep, maxMove |-> 0])
    IN RepelLoop(PairsOf(Len(entityIds)), entityIds, sysR, sprung)
RelaxCap == 300

\* ------------------------------------------------------------ arrangeLayout.js: placement
\* ensureRelationshipClearance: one pass over the relationships
RECURSIVE ClearanceLoop(_, _, _, _, _)
ClearanceLoop(rels, conn, ns, ring, ep) ==
    IF rels = <<>> THEN ep
    ELSE LET pair == TwoEntities(conn, Head(rels))
         IN IF pair = <<>> THEN ClearanceLoop(Tail(rels), conn, ns, ring, ep)
            ELSE LET idA == pair[1]
                     idB == pair[2]
                     dx == ep[idB].x - ep[idA].x
                     dy == ep[idB].y - ep[idA].y
                     dist == HypotOr1(dx, dy)
                     relRadius == getRadius(ns, Head(rels))
                     minHalf == Max(ring[idA], ring[idB]) + relRadius + Px(12)
                     missing == minHalf * 2 - dist
                 IN IF dist >= minHalf * 2 THEN ClearanceLoop(Tail(rels), conn, ns, ring, ep)
                    ELSE ClearanceLoop(Tail(rels), conn, ns, ring,
                             Apart(ep, idA, idB, dx, dy, 2 * dist, missing))
ensureRelationshipClearance(ns, es, ring, ep) ==
    ClearanceLoop(IdsOfType(ns, "relationship"), relationshipConnections(ns, es), ns, ring, ep)

\* the free angular segments around an entity, given the angles to avoid
halfGap == 1750
RECURSIVE SegmentLoop(_, _)
SegmentLoop(sortedAngles, i) ==
    IF i > Len(sortedAngles) THEN <<>>
    ELSE LET next == IF i = Len(sortedAngles) THEN sortedAngles[1] + TwoPi ELSE sortedAngles[i + 1]
             start == sortedAngles[i] + halfGap
             end == next - halfGap
         IN (IF end > start THEN <<[start |-> start, end |-> end]>> ELSE <<>>)
            \o SegmentLoop(sortedAngles, i + 1)
FreeSegments(avoidAngles) ==
    LET whole == <<[start |-> 0, end |-> TwoPi]>>
        found == SegmentLoop(SortByKey(avoidAngles, [a \in Range(avoidAngles) |-> a]), 1)
    IN IF found = <<>> THEN whole ELSE found
\* Math.round of a non-negative quotient
RoundDiv(a, b) == (2 * a + b) \div (2 * b)
\* the first index of the longest segment
LongestSegment(segments) ==
    CHOOSE i \in DOMAIN segments :
        /\ \A j \in DOMAIN segments : segments[j].end - segments[j].start
                                          <= segments[i].end - segments[i].start
        /\ \A j \in 1..(i - 1) : segments[j].end - segments[j].start
                                     < segments[i].end - segments[i].start
\* while (allocated < totalCount): one more for the longest segment
RECURSIVE GrowCounts(_, _, _, _)
GrowCounts(counts, segments, totalCount, passes) ==
    IF SeqSum(counts) >= totalCount THEN [counts |-> counts, passes |-> passes]
    ELSE LET maxIdx == LongestSegment(segments)
         IN GrowCounts([counts EXCEPT ![maxIdx] = @ + 1], segments, totalCount, passes + 1)
\* while (allocated > totalCount): one less for the last segment that has any
RECURSIVE ShrinkCounts(_, _, _)
ShrinkCounts(counts, totalCount, passes) ==
    IF SeqSum(counts) <= totalCount THEN [counts |-> counts, passes |-> passes]
    ELSE LET i == CHOOSE k \in DOMAIN counts :
                      counts[k] > 0 /\ \A j \in DOMAIN counts : j > k => counts[j] = 0
         IN ShrinkCounts([counts EXCEPT ![i] = @ - 1], totalCount, passes + 1)
SegmentCounts(segments, totalCount) ==
    LET totalAngle == SeqSum([i \in DOMAIN segments |-> segments[i].end - segments[i].start])
        rounded == [i \in DOMAIN segments |->
                       Max(0, RoundDiv(totalCount * (segments[i].end - segments[i].start),
                                       totalAngle))]
        grown == GrowCounts(rounded, segments, totalCount, 0)
    IN ShrinkCounts(grown.counts, totalCount, grown.passes)
\* the direction of q seen from p, in [0, 2 pi)
AngleTo(p, q) == normalizeAngle(Atan2(q.y - p.y, q.x - p.x))
\* the avoided angles taken from the other entity towards the centre
RECURSIVE AvoidAnglesReversed(_, _, _)
AvoidAnglesReversed(sats, ep, center) ==
    IF sats = <<>> THEN <<>>
    ELSE (IF Head(sats).type = "rel" /\ Head(sats).otherEntity # 0
          THEN <<AngleTo(ep[Head(sats).otherEntity], center)>> ELSE <<>>)
         \o AvoidAnglesReversed(Tail(sats), ep, center)
\* directions towards the other entity of every two-entity relationship of an entity
RECURSIVE AvoidAngles(_, _, _)
AvoidAngles(sats, ep, center) ==
    IF sats = <<>> THEN <<>>
    ELSE (IF Head(sats).type = "rel" /\ Head(sats).otherEntity # 0
          THEN <<AngleTo(center, ep[Head(sats).otherEntity])>> ELSE <<>>)
         \o AvoidAngles(Tail(sats), ep, center)
RECURSIVE OrbitalSatellites(_)
OrbitalSatellites(sats) ==
    IF sats = <<>> THEN <<>>
    ELSE (IF Head(sats).type = "attr" \/ Head(sats).otherEntity = 0
          THEN <<Head(sats)>> ELSE <<>>) \o OrbitalSatellites(Tail(sats))
\* the slots of the segments in order: segment idx contributes counts[idx] angles
RECURSIVE SlotAngles(_, _, _, _)
SlotAngles(segments, counts, idx, i) ==
    IF idx > Len(segments) THEN <<>>
    ELSE IF i >= counts[idx] THEN SlotAngles(segments, counts, idx + 1, 0)
    ELSE LET s == segments[idx]
             angle == s.start + Div((s.end - s.start) * (2 * i + 1), 2 * counts[idx])
         IN <<normalizeAngle(angle)>> \o SlotAngles(segments, counts, idx, i + 1)
OnRing(center, ringRadius, useAngle) ==
    Pt(center.x + Div(ringRadius * Cos(useAngle), TrigScale),
       center.y + Div(ringRadius * Sin(useAngle), TrigScale))
\* the satellites of one entity: targets of its orbital satellites and the passes taken
PlaceSatellites(ns, es, p, ep, ring, eid, tg) ==
    LET satellites == Satellites(ns, es, eid)
        center == ep[eid]
        segments == FreeSegments(AvoidAngles(satellites, ep, center))
        orbital == OrbitalSatellites(satellites)
        sortedSatellites == SortByKey(orbital,
                                [s \in Range(orbital) |-> AngleTo(center, p[s.node])])
        alloc == SegmentCounts(segments, Len(sortedSatellites))
        slots == SlotAngles(segments, alloc.counts, 1, 0)
        set == {sortedSatellites[i].node : i \in DOMAIN sortedSatellites}
    IN IF orbital = <<>> THEN [targets |-> tg, passes |-> 0]
       ELSE [targets |-> [id \in DOMAIN tg \cup set |->
                             IF id \in set
                             THEN OnRing(center, ring[eid],
                                      slots[CHOOSE i \in DOMAIN sortedSatellites :
                                                sortedSatellites[i].node = id])
                             ELSE tg[id]],
             passes |-> alloc.passes]
RECURSIVE SatelliteLoop(_, _, _, _, _, _, _)
SatelliteLoop(ids, ns, es, p, ep, ring, st) ==
    IF ids = <<>> THEN st
    ELSE LET one == PlaceSatellites(ns, es, p, ep, ring, Head(ids), st.targets)
         IN SatelliteLoop(Tail(ids), ns, es, p, ep, ring,
                [targets |-> one.targets, passes |-> Max(st.passes, one.passes)])

\* the two-entity relationships, in listing order
TwoEntityRels(ns, es) ==
    LET conn == relationshipConnections(ns, es)
        rels == IdsOfType(ns, "relationship")
    IN Filter(rels, {r \in Range(rels) : TwoEntities(conn, r) # <<>>})
\* a point a third of the way from a to b
ThirdPoint(a, b) == Pt(Div(2 * a.x + b.x, 3), Div(2 * a.y + b.y, 3))
Midpoint(a, b) == Pt(Div(a.x + b.x, 2), Div(a.y + b.y, 2))
\* relationships between the same pair of entities, in listing order
SamePair(ns, es, rid) ==
    LET conn == relationshipConnections(ns, es)
        rels == TwoEntityRels(ns, es)
    IN Filter(rels, {r \in Range(rels) : Range(conn[r]) = Range(conn[rid])})
\* the anchor of a two-entity relationship: the midpoint, or its place in the
\* diamond stack across the axis when several relationships join the same pair
relAnchor(ns, es, ep, rid) ==
    LET conn == relationshipConnections(ns, es)
        list == SamePair(ns, es, rid)
        sample == list[1]
        posA == ep[conn[sample][1]]
        posB == ep[conn[sample][2]]
        dx == posB.x - posA.x
        dy == posB.y - posA.y
        dist == HypotOr1(dx, dy)
        base == Midpoint(posA, posB)
        maxRadius == SeqMax([i \in DOMAIN list |-> getRadius(ns, list[i])])
        offsetStep == maxRadius * 2 + Px(16)
        sorted == SortedSeq(Range(list))
        twiceOffset == 2 * (IndexOf(sorted, rid) - 1) - (Len(sorted) - 1)
    IN IF Len(list) <= 1 THEN Midpoint(ep[conn[rid][1]], ep[conn[rid][2]])
       ELSE Pt(base.x + Div((-dy) * twiceOffset * offsetStep, 2 * dist),
               base.y + Div(dx * twiceOffset * offsetStep, 2 * dist))
RelAnchors(ns, es, ep) ==
    [rid \in Range(TwoEntityRels(ns, es)) |-> relAnchor(ns, es, ep, rid)]
\* ------------------------------------------------------------ arrangeLayout.js: overlap passes
\* let dist = Math.hypot(dx, dy); if (dist === 0) dist = 0.01: the divisor of the unit
\* vector (dx and dy are 0 whenever it is replaced, so the vector is 0) and the overlap
Divisor(dist) == IF dist = 0 THEN 1 ELSE dist
\* mutual push of every pair of listed ids that has a position, by half the overlap
RECURSIVE PushApartLoop(_, _, _, _, _)
PushApartLoop(pairs, ids, radius, gap, st) ==
    IF pairs = <<>> THEN st
    ELSE LET idA == ids[Head(pairs)[1]]
             idB == ids[Head(pairs)[2]]
         IN IF ~(Has(st.ep, idA) /\ Has(st.ep, idB))
            THEN PushApartLoop(Tail(pairs), ids, radius, gap, st)
            ELSE LET dx == st.ep[idB].x - st.ep[idA].x
                     dy == st.ep[idB].y - st.ep[idA].y
                     dist == Hypot(dx, dy)
                     minDist == radius[idA] + radius[idB] + gap
                     push == Div(minDist - dist, 2)
                 IN IF dist < minDist
                    THEN PushApartLoop(Tail(pairs), ids, radius, gap,
                             [ep |-> Apart(st.ep, idA, idB, dx, dy, Divisor(dist), push),
                              maxMove |-> Max(st.maxMove, push)])
                    ELSE PushApartLoop(Tail(pairs), ids, radius, gap, st)
\* a relationship is pushed out of the collision circle of each entity it connects
RECURSIVE EntityPushLoop(_, _, _, _)
EntityPushLoop(ents, ep, ring, pt) ==
    IF ents = <<>> THEN pt
    ELSE LET center == ep[Head(ents)]
             limit == ring[Head(ents)] + Px(20)
             dx == pt.x - center.x
             dy == pt.y - center.y
             dist == Hypot(dx, dy)
             push == limit - dist
         IN EntityPushLoop(Tail(ents), ep, ring,
                IF dist < limit
                THEN Pt(pt.x + Div(dx * push, Divisor(dist)), pt.y + Div(dy * push, Divisor(dist)))
                ELSE pt)
\* one of the 80 passes over the relationship positions
RelRelaxPass(ns, es, ep, ring, anchors, rp) ==
    LET rels == IdsOfType(ns, "relationship")
        conn == relationshipConnections(ns, es)
        relRadii == [r \in Range(rels) |-> getRadius(ns, r)]
        apart == PushApartLoop(PairsOf(Len(rels)), rels, relRadii, Px(14),
                               [ep |-> rp, maxMove |-> 0]).ep
        clear == [r \in DOMAIN apart |-> EntityPushLoop(conn[r], ep, ring, apart[r])]
    IN [r \in DOMAIN clear |-> Pt(Div(clear[r].x * 85 + anchors[r].x * 15, 100),
                                  Div(clear[r].y * 85 + anchors[r].y * 15, 100))]
RelRelaxCap == 80

\* the target map left as the placement steps built it
KeepTargets(ns, p, tg) == tg
\* applyGlobalSeparation: every node without a target keeps its model position
FillTargets(ns, p, tg) == [id \in IdSet(ns) |-> IF Has(tg, id) THEN tg[id] ELSE p[id]]
\* one pass of applyGlobalSeparation over all pairs of nodes
GlobalPass(ns, tg) ==
    PushApartLoop(PairsOf(Len(ns)), NodeIds(ns), [id \in IdSet(ns) |-> getRadius(ns, id)],
                  Px(8), [ep |-> tg, maxMove |-> 0])
GlobalCap == 400
\* ------------------------------------------------------------ forceAlignLayout.js: structure
isCore(type) == type = "entity" \/ type = "relationship"
RECURSIVE CoreIds(_)
CoreIds(ns) == IF ns = <<>> THEN <<>>
               ELSE (IF isCore(Head(ns).nodeType) THEN <<Head(ns).id>> ELSE <<>>)
                    \o CoreIds(Tail(ns))
\* adjacency among entities and relationships only, neighbours in insertion order
RECURSIVE CoreEdges(_, _)
CoreEdges(ns, es) ==
    IF es = <<>> THEN <<>>
    ELSE (IF isCore(TypeOf(ns, Head(es).source)) /\ isCore(TypeOf(ns, Head(es).target))
          THEN <<Head(es)>> ELSE <<>>) \o CoreEdges(ns, Tail(es))
coreAdj(ns, es) == BuildAdj(CoreEdges(ns, es), EmptyMap)
Neighbours(adj, id) == IF Has(adj, id) THEN adj[id] ELSE <<>>
\* the neighbours of id that have the given type
TypedNeighbours(ns, adj, id, type) ==
    LET nbs == Neighbours(adj, id)
    IN Filter(nbs, {x \in Range(nbs) : TypeOf(ns, x) = type})
\* entityAttrs: parent id -> its attributes in listing order, parents in insertion order
RECURSIVE AttrParents(_)
AttrParents(ns) ==
    IF ns = <<>> THEN <<>>
    ELSE LET rest == AttrParents(SubSeq(ns, 1, Len(ns) - 1))
             last == ns[Len(ns)]
         IN IF last.nodeType = "attribute" /\ last.parentEntity # 0
            THEN AddOnce(rest, last.parentEntity) ELSE rest
AttrsOf(ns, pid) ==
    LET ids == NodeIds(ns)
    IN Filter(ids, {a \in Range(ids) : /\ TypeOf(ns, a) = "attribute"
                                        /\ NodeOf(ns, a).parentEntity = pid})

\* bfsFarthest: breadth-first distances from start inside the allowed ids
RECURSIVE BfsLoop(_, _, _, _, _)
BfsLoop(queue, st, adj, allowed, pushes) ==
    IF queue = <<>> THEN [dist |-> st.dist, order |-> st.order, prev |-> st.prev,
                          pushes |-> pushes]
    ELSE LET cur == Head(queue)
             nbs == Neighbours(adj, cur)
             fresh == Filter(nbs, (Range(nbs) \cap allowed) \ DOMAIN st.dist)
         IN BfsLoop(Tail(queue) \o fresh,
                [dist |-> [id \in DOMAIN st.dist \cup Range(fresh) |->
                              IF id \in DOMAIN st.dist THEN st.dist[id] ELSE st.dist[cur] + 1],
                 order |-> st.order \o fresh,
                 prev |-> [id \in DOMAIN st.prev \cup Range(fresh) |->
                              IF id \in DOMAIN st.prev THEN st.prev[id] ELSE cur]],
                adj, allowed, pushes \o fresh)
\* the first id, in the order the distances were set, no other id is farther than
RECURSIVE Farthest(_, _, _)
Farthest(order, dist, best) ==
    IF order = <<>> THEN best
    ELSE Farthest(Tail(order), dist, IF dist[Head(order)] > dist[best] THEN Head(order) ELSE best)
bfsFarthest(start, allowed, adj) ==
    LET walk == BfsLoop(<<start>>, [dist |-> (start :> 0), order |-> <<start>>,
                                   prev |-> EmptyMap], adj, allowed, <<start>>)
    IN [farthest |-> Farthest(walk.order, walk.dist, start), dist |-> walk.dist,
        prev |-> walk.prev, pushes |-> walk.pushes]
\* the chain of predecessors from cur back to the start of the walk
RECURSIVE PathBack(_, _)
PathBack(cur, prev) ==
    IF Has(prev, cur) THEN Append(PathBack(prev[cur], prev), cur) ELSE <<cur>>
\* the path back from the far end of the second walk
LongestPath(one, two) ==
    [path |-> PathBack(two.farthest, two.prev), pushes |-> <<one.pushes, two.pushes>>]
\* the second walk starts at the node farthest from the first start
SecondWalk(allowed, adj, one) == LongestPath(one, bfsFarthest(one.farthest, allowed, adj))
findLongestPath(ids, adj) == SecondWalk(Range(ids), adj, bfsFarthest(ids[1], Range(ids), adj))

\* ------------------------------------------------------------ forceAlignLayout.js: layoutComponent
\* the first truthy side sign recorded for one of the ids, 0 when there is none
RECURSIVE FirstSign(_, _)
FirstSign(ids, hint) ==
    IF ids = <<>> THEN 0
    ELSE IF Has(hint, Head(ids)) /\ hint[Head(ids)] # 0 THEN hint[Head(ids)]
    ELSE FirstSign(Tail(ids), hint)
SetAll(m, ids, v) == [k \in DOMAIN m \cup Range(ids) |-> IF k \in Range(ids) THEN v ELSE m[k]]
\* Math.sign(Math.sin(a)); the double nearest to pi has a positive sine
SinSign(a) == IF a = PI THEN 1 ELSE Sign(Sin(a))
\* anchors on the main path seen from the members of a branch, in insertion order
RECURSIVE BranchAnchors(_, _, _, _)
BranchAnchors(comp, adj, mainPathSet, acc) ==
    IF comp = <<>> THEN acc
    ELSE LET nbs == Neighbours(adj, Head(comp))
             onMain == Filter(nbs, Range(nbs) \cap mainPathSet)
         IN BranchAnchors(Tail(comp), adj, mainPathSet,
                acc \o Filter(onMain, Range(onMain) \ Range(acc)))
\* every branch gets the side of the first one
RECURSIVE BranchLoopOneSide(_, _, _, _)
BranchLoopOneSide(nonMain, adj, mainPathSet, st) ==
    IF nonMain = <<>> THEN st
    ELSE LET allowed == {x \in DOMAIN adj : x \notin mainPathSet}
             w == DfsLoop(<<Head(nonMain)>>, st.visited \cup {Head(nonMain)}, <<>>,
                          <<Head(nonMain)>>, [k \in allowed |-> Filter(adj[k], allowed)],
                          allowed \cup {Head(nonMain)})
         IN IF Head(nonMain) \in st.visited
            THEN BranchLoopOneSide(Tail(nonMain), adj, mainPathSet, st)
            ELSE BranchLoopOneSide(Tail(nonMain), adj, mainPathSet,
                     [visited |-> w.visited, hint |-> SetAll(st.hint, w.comp, st.altSide),
                      altSide |-> st.altSide, pushes |-> Append(st.pushes, w.pushes)])
\* every branch hanging off the main path gets one side sign
RECURSIVE BranchLoop(_, _, _, _)
BranchLoop(nonMain, adj, mainPathSet, st) ==
    IF nonMain = <<>> THEN st
    ELSE LET id == Head(nonMain)
         IN IF id \in st.visited THEN BranchLoop(Tail(nonMain), adj, mainPathSet, st)
            ELSE LET allowed == {x \in DOMAIN adj : x \notin mainPathSet}
                     reach == [k \in allowed |-> Filter(adj[k], allowed)]
                     w == DfsLoop(<<id>>, st.visited \cup {id}, <<>>, <<id>>, reach,
                                  allowed \cup {id})
                     anchors == BranchAnchors(w.comp, adj, mainPathSet, <<>>)
                     own == FirstSign(w.comp, st.hint)
                     fromAnchor == FirstSign(anchors, st.hint)
                     compSign == IF own # 0 THEN own
                                 ELSE IF fromAnchor # 0 THEN fromAnchor ELSE st.altSide
                 IN BranchLoop(Tail(nonMain), adj, mainPathSet,
                        [visited |-> w.visited,
                         hint |-> SetAll(st.hint, w.comp, compSign),
                         altSide |-> IF own = 0 /\ fromAnchor = 0 THEN -st.altSide
                                     ELSE st.altSide,
                         pushes |-> Append(st.pushes, w.pushes)])

\* computeExtraAngles for a side sign other than 0 (the only way layoutComponent calls it:
\* its compSign is never 0): extraCount angles spread over the arcs that the anchors cut
\* out of the half circle of that side
ExtraArcs(anchors, preferredSign) ==
    LET halfStart == IF preferredSign > 0 THEN 0 ELSE PI
        halfEnd == halfStart + PI
        norm == [i \in DOMAIN anchors |-> normalizeAngle(anchors[i])]
        inHalf == Filter(norm, {a \in Range(norm) : a >= halfStart /\ a < halfEnd})
        anchorInHalf == SortByKey(inHalf, [a \in Range(inHalf) |-> a])
        points == <<halfStart>> \o anchorInHalf \o <<halfEnd>>
    IN [i \in 1..(Len(points) - 1) |-> [start |-> points[i],
                                        length |-> points[i + 1] - points[i]]]
RECURSIVE ArcAngles(_, _, _, _)
ArcAngles(arcs, extras, i, k) ==
    IF i > Len(arcs) THEN <<>>
    ELSE IF arcs[i].length <= 0 \/ k > extras[i] THEN ArcAngles(arcs, extras, i + 1, 1)
    ELSE <<normalizeAngle(arcs[i].start + Div(arcs[i].length * k, extras[i] + 1))>>
         \o ArcAngles(arcs, extras, i, k + 1)
\* extraCount angles shared out over the arcs in proportion to their lengths
ExtraAngles(arcs, extraCount, preferredSign) ==
    LET totalLen == IF SeqSum([i \in DOMAIN arcs |-> arcs[i].length]) = 0 THEN PI
                    ELSE SeqSum([i \in DOMAIN arcs |-> arcs[i].length])
        floorOf == [i \in DOMAIN arcs |-> (arcs[i].length * extraCount) \div totalLen]
        fraction == [i \in DOMAIN arcs |-> (arcs[i].length * extraCount) % totalLen]
        remaining == extraCount - SeqSum(floorOf)
        byFraction == SortByKey([i \in DOMAIN arcs |-> i], [i \in DOMAIN arcs |-> -fraction[i]])
        bonus == [i \in DOMAIN arcs |->
                     Cardinality({j \in 0..(remaining - 1) :
                                     byFraction[(j % Len(arcs)) + 1] = i})]
        extras == [i \in DOMAIN arcs |-> floorOf[i] + bonus[i]]
        result == ArcAngles(arcs, extras, 1, 1)
        halfStart == IF preferredSign > 0 THEN 0 ELSE PI
        spare == [i \in 1..extraCount |->
                     normalizeAngle(halfStart + Div(PI * i, extraCount + 1))]
        chosen == IF result = <<>> THEN spare ELSE result
    IN SortByKey(chosen, [a \in Range(chosen) |-> a])
computeExtraAngles(anchors, extraCount, preferredSign) ==
    IF extraCount <= 0 THEN <<>>
    ELSE ExtraAngles(ExtraArcs(anchors, preferredSign), extraCount, preferredSign)

\* the entities a relationship joins, other than eid
OtherEntities(ns, adj, rid, eid) ==
    LET ents == TypedNeighbours(ns, adj, rid, "entity")
    IN Filter(ents, Range(ents) \ {eid})
\* two unplaced relationships of an entity belong together when their far entities
\* coincide or are adjacent
RelLinked(ns, adj, eid, a, b) ==
    \E x \in Range(OtherEntities(ns, adj, a, eid)) :
        \E y \in Range(OtherEntities(ns, adj, b, eid)) :
            x = y \/ y \in Range(Neighbours(adj, x))
\* compSign of a group of relationships: the first recorded sign of a member or of one
\* of its far entities
RECURSIVE GroupSign(_, _, _, _, _)
GroupSign(comp, ns, adj, eid, hint) ==
    IF comp = <<>> THEN 0
    ELSE LET relSign == FirstSign(<<Head(comp)>>, hint)
             entSign == FirstSign(OtherEntities(ns, adj, Head(comp), eid), hint)
         IN IF relSign # 0 THEN relSign
            ELSE IF entSign # 0 THEN entSign
            ELSE GroupSign(Tail(comp), ns, adj, eid, hint)
\* a point at the given distance and direction from p
Polar(p, angle, dist) == Pt(p.x + Div(Cos(angle) * dist, TrigScale),
                            p.y + Div(Sin(angle) * dist, TrigScale))
\* the angles of a group of count relationships on the side compSign: among the anchors
\* of that side when there are any, else among all anchors
GroupAngles(anchor, count, compSign) ==
    LET onSide == {i \in DOMAIN anchor.angles :
                      IF compSign > 0 THEN anchor.signs[i] >= 0 ELSE anchor.signs[i] <= 0}
        anchorsForSide == [j \in 1..Cardinality(onSide) |->
                              anchor.angles[CHOOSE i \in onSide :
                                  Cardinality({k \in onSide : k < i}) = j - 1]]
    IN computeExtraAngles(IF anchorsForSide # <<>> THEN anchorsForSide ELSE anchor.angles,
                          count, compSign)
\* the members of a group take the angles in the order of their ids
GroupTargets(comp, ns, eid, st, known, compSign, angles) ==
    LET sortedComp == SortedSeq(Range(comp))
        angleOf == [rid \in Range(comp) |->
                       angles[((IndexOf(sortedComp, rid) - 1) % Len(angles)) + 1]]
        signOf == [rid \in Range(comp) |->
                      IF SinSign(angleOf[rid]) # 0 THEN SinSign(angleOf[rid]) ELSE compSign]
    IN [targets |-> [id \in DOMAIN st.targets \cup Range(comp) |->
                        IF id \in Range(comp)
                        THEN Polar(st.targets[eid], angleOf[id],
                                   getRadius(ns, eid) + getRadius(ns, id) + Px(40))
                        ELSE st.targets[id]],
        hint |-> [id \in DOMAIN st.hint \cup Range(comp) |->
                     IF Has(st.hint, id) THEN st.hint[id] ELSE signOf[id]],
        nextAltSign |-> IF known # 0 THEN st.nextAltSign ELSE -st.nextAltSign,
        wedges |-> Append(st.wedges, [eid |-> eid, comp |-> sortedComp, sign |-> compSign,
                                      angles |-> angles, angleOf |-> angleOf])]
\* one group: its side is the known one, else the alternating one
PlaceGroup(comp, ns, eid, anchor, st, known) ==
    GroupTargets(comp, ns, eid, st, known, IF known # 0 THEN known ELSE st.nextAltSign,
                 GroupAngles(anchor, Len(comp), IF known # 0 THEN known ELSE st.nextAltSign))
\* the groups of unplaced relationships of eid are placed one after the other
RECURSIVE GroupLoop(_, _, _, _, _, _)
GroupLoop(groups, ns, adj, eid, anchor, st) ==
    IF groups = <<>> THEN st
    ELSE GroupLoop(Tail(groups), ns, adj, eid, anchor,
                   PlaceGroup(Head(groups), ns, eid, anchor, st,
                              GroupSign(Head(groups), ns, adj, eid, st.hint)))

\* the far entities of the relationships around eid are placed behind them and queued
RECURSIVE FarLoop(_, _, _, _, _, _)
FarLoop(rels, others, ns, adj, eid, st) ==
    IF rels = <<>> THEN st
    ELSE IF others = <<>>
    THEN IF Len(rels) = 1 THEN st
         ELSE FarLoop(Tail(rels), OtherEntities(ns, adj, rels[2], eid), ns, adj, eid, st)
    ELSE LET rid == Head(rels)
             otherId == Head(others)
             entityPos == st.targets[eid]
             angle == Atan2(st.targets[rid].y - entityPos.y, st.targets[rid].x - entityPos.x)
             dist == getRadius(ns, eid) + getRadius(ns, rid) + getRadius(ns, otherId) + Px(80)
             bySine == SinSign(normalizeAngle(angle))
             byHint == FirstSign(<<rid, eid>>, st.hint)
             sign == IF bySine # 0 THEN bySine ELSE IF byHint # 0 THEN byHint ELSE 1
         IN IF Has(st.targets, otherId) THEN FarLoop(rels, Tail(others), ns, adj, eid, st)
            ELSE FarLoop(rels, Tail(others), ns, adj, eid,
                     [targets |-> Put(st.targets, otherId, Polar(entityPos, angle, dist)),
                      hint |-> IF Has(st.hint, otherId) THEN st.hint
                               ELSE Put(st.hint, otherId, sign),
                      queue |-> Append(st.queue, otherId),
                      pushes |-> Append(st.pushes, otherId),
                      wedges |-> st.wedges])
\* the unplaced relationships around a placed entity eid are grouped and placed
PlaceAround(ns, adj, eid, st, relNeighbors) ==
    LET entityPos == st.targets[eid]
        preferredSign == FirstSign(<<eid>>, st.hint)
        anchorRels == Filter(relNeighbors, DOMAIN st.targets)
        unplacedRels == Filter(relNeighbors, Range(relNeighbors) \ DOMAIN st.targets)
        anchorAngles == [i \in DOMAIN anchorRels |->
                            AngleTo(entityPos, st.targets[anchorRels[i]])]
        anchorSigns == [i \in DOMAIN anchorRels |->
                           IF FirstSign(<<anchorRels[i]>>, st.hint) # 0
                           THEN st.hint[anchorRels[i]] ELSE SinSign(anchorAngles[i])]
        relAdj == [a \in Range(unplacedRels) |->
                      Filter(unplacedRels, {b \in Range(unplacedRels) :
                                b # a /\ (RelLinked(ns, adj, eid, a, b)
                                          \/ RelLinked(ns, adj, eid, b, a))})]
    IN GroupLoop(Components(unplacedRels, relAdj, Range(unplacedRels)).components,
                 ns, adj, eid, [angles |-> anchorAngles, signs |-> anchorSigns],
                 [targets |-> st.targets, hint |-> st.hint,
                  nextAltSign |-> IF preferredSign = 0 THEN 1 ELSE preferredSign,
                  wedges |-> st.wedges])
\* the entity at the head of the queue: skipped when it has no position or no
\* relationship, else its relationships and then their far entities are placed
QueueStep(ns, adj, eid, st, relNeighbors, grouped) ==
    IF ~Has(st.targets, eid) \/ relNeighbors = <<>> THEN [st EXCEPT !.queue = Tail(st.queue)]
    ELSE FarLoop(relNeighbors, OtherEntities(ns, adj, relNeighbors[1], eid), ns, adj, eid,
                 [targets |-> grouped.targets, hint |-> grouped.hint,
                  queue |-> Tail(st.queue), pushes |-> st.pushes, wedges |-> grouped.wedges])
\* while (queue.length): the relationships around the next entity, then their far entities
RECURSIVE QueueLoop(_, _, _)
QueueLoop(ns, adj, st) ==
    IF st.queue = <<>> THEN st
    ELSE QueueLoop(ns, adj,
             QueueStep(ns, adj, Head(st.queue), st,
                       TypedNeighbours(ns, adj, Head(st.queue), "relationship"),
                       PlaceAround(ns, adj, Head(st.queue), st,
                                   TypedNeighbours(ns, adj, Head(st.queue), "relationship"))))
\* the targets of a component (members the walk did not reach keep their position) and
\* the bounds over all its members
LayoutResult(ids, ns, p, longest, chain, branchPushes, walked) ==
    LET all == [id \in Range(ids) |-> IF Has(walked.targets, id) THEN walked.targets[id]
                                      ELSE p[id]]
    IN [targets |-> all,
        reached |-> DOMAIN walked.targets,
        bounds |-> [minX |-> SeqMin([i \in DOMAIN ids |-> all[ids[i]].x - getRadius(ns, ids[i])]),
                    maxX |-> SeqMax([i \in DOMAIN ids |-> all[ids[i]].x + getRadius(ns, ids[i])]),
                    minY |-> SeqMin([i \in DOMAIN ids |-> all[ids[i]].y - getRadius(ns, ids[i])]),
                    maxY |-> SeqMax([i \in DOMAIN ids |-> all[ids[i]].y + getRadius(ns, ids[i])])],
        mainPath |-> longest.path,
        chain |-> chain,
        hint |-> walked.hint,
        wedges |-> walked.wedges,
        pushes |-> longest.pushes \o branchPushes \o <<walked.pushes>>]
\* the entities of the main path get side 0, then every branch off the path gets its side
BranchSides(ids, ns, hint0, adj, mainPath) ==
    BranchLoop(Filter(ids, Range(ids) \ Range(mainPath)), adj, Range(mainPath),
               [visited |-> {},
                hint |-> SetAll(hint0, Filter(mainPath, {id \in Range(mainPath) :
                                                           TypeOf(ns, id) = "entity"}), 0),
                altSide |-> 1, pushes |-> <<>>])
\* the main path on the x axis around the origin, the side of every branch, then the
\* walk over the queue of entities
LayoutAlong(ids, ns, p, hint0, adj, longest) ==
    LET maxRadius == SeqMax([i \in DOMAIN ids |-> getRadius(ns, ids[i])])
        chainSpacing == Max(Px(200), maxRadius * 2 + Px(40))
        mainPath == longest.path
        startX == -Div((Len(mainPath) - 1) * chainSpacing, 2)
        chain == [id \in Range(mainPath) |->
                     Pt(startX + (IndexOf(mainPath, id) - 1) * chainSpacing, 0)]
        mainEntities == Filter(mainPath, {id \in Range(mainPath) : TypeOf(ns, id) = "entity"})
        branches == BranchSides(ids, ns, hint0, adj, mainPath)
    IN LayoutResult(ids, ns, p, longest, chain, branches.pushes,
                    QueueLoop(ns, adj, [targets |-> chain, hint |-> branches.hint,
                                        queue |-> mainEntities, pushes |-> mainEntities,
                                        wedges |-> <<>>]))
\* one core component laid out around the origin: the main path on the x axis, the
\* branches around it, then the bounds over every placed member
layoutComponent(ids, ns, es, p, hint0) ==
    LayoutAlong(ids, ns, p, hint0, coreAdj(ns, es), findLongestPath(ids, coreAdj(ns, es)))

\* ------------------------------------------------------------ forceAlignLayout.js: tiling
\* components.map(layoutComponent): the side signs are shared by all components
RECURSIVE LayoutsLoop(_, _, _, _, _)
LayoutsLoop(comps, ns, es, p, acc) ==
    IF comps = <<>> THEN acc
    ELSE LayoutsLoop(Tail(comps), ns, es, p,
             Append(acc, layoutComponent(Head(comps), ns, es, p,
                                         IF acc = <<>> THEN EmptyMap ELSE acc[Len(acc)].hint)))
componentGap == 240
\* the components put side by side in one row, whatever the width
RECURSIVE TileLoopOneRow(_, _, _, _)
TileLoopOneRow(layouts, containerWidth, cur, acc) ==
    IF layouts = <<>> THEN acc
    ELSE LET b == Head(layouts).bounds
             width == (b.maxX - b.minX) + Px(componentGap)
             height == (b.maxY - b.minY) + Px(componentGap)
         IN TileLoopOneRow(Tail(layouts), containerWidth,
                [x |-> cur.x + width, y |-> cur.y, rowHeight |-> Max(cur.rowHeight, height)],
                Append(acc, Pt(cur.x - b.minX, cur.y - b.minY)))
\* the components are put side by side, a new row starting when the width is used up
RECURSIVE TileLoop(_, _, _, _)
TileLoop(layouts, containerWidth, cur, acc) ==
    IF layouts = <<>> THEN acc
    ELSE LET b == Head(layouts).bounds
             width == (b.maxX - b.minX) + Px(componentGap)
             height == (b.maxY - b.minY) + Px(componentGap)
             wrap == cur.x + width > containerWidth - Div(Px(componentGap), 2)
             cursorX == IF wrap THEN Px(componentGap) ELSE cur.x
             cursorY == IF wrap THEN cur.y + cur.rowHeight + Px(componentGap) ELSE cur.y
             rowHeight == IF wrap THEN 0 ELSE cur.rowHeight
         IN TileLoop(Tail(layouts), containerWidth,
                [x |-> cursorX + width, y |-> cursorY, rowHeight |-> Max(rowHeight, height)],
                Append(acc, Pt(cursorX - b.minX, cursorY - b.minY)))
\* the offset of every component
TileOffsets(layouts, containerWidth) ==
    TileLoop(layouts, containerWidth,
             [x |-> Px(componentGap), y |-> Px(componentGap), rowHeight |-> 0], <<>>)
RECURSIVE SeqConcat(_)
SeqConcat(ss) == IF ss = <<>> THEN <<>> ELSE Head(ss) \o SeqConcat(Tail(ss))
\* the layouts moved to their offsets
TilePlace(core, containerWidth, walkPushes, layouts) ==
    LET offset == TileOffsets(layouts, containerWidth)
        compOf == [id \in Range(core) |->
                      CHOOSE i \in DOMAIN layouts : id \in DOMAIN layouts[i].targets]
        mainIds == UNION {Range(layouts[i].mainPath) : i \in DOMAIN layouts}
    IN [globalTargets |-> [id \in Range(core) |->
                              Pt(layouts[compOf[id]].targets[id].x + offset[compOf[id]].x,
                                 layouts[compOf[id]].targets[id].y + offset[compOf[id]].y)],
        mainChainIds |-> mainIds,
        sideHint |-> layouts[Len(layouts)].hint,
        chainPos |-> [id \in mainIds |->
                         Pt(layouts[compOf[id]].chain[id].x + offset[compOf[id]].x,
                            layouts[compOf[id]].chain[id].y + offset[compOf[id]].y)],
        pushes |-> <<walkPushes>>
                   \o SeqConcat([i \in DOMAIN layouts |-> layouts[i].pushes])]
\* the walk of force-align: core nodes in listing order, neighbours in insertion order
CoreWalk(ns, es) == Components(CoreIds(ns), coreAdj(ns, es), Range(CoreIds(ns)))
\* everything force-align does up to the recording of the main-chain positions
TileComponents(ns, es, p, containerWidth) ==
    LET walk == CoreWalk(ns, es)
    IN TilePlace(CoreIds(ns), containerWidth, walk.pushes,
                 LayoutsLoop(walk.components, ns, es, p, <<>>))

\* ------------------------------------------------------------ forceAlignLayout.js: passes
\* place(list, sign): the listed relationships share the half circle of their side
PlaceSide(ns, eid, list, sign, st) ==
    IF list = <<>> THEN st
    ELSE LET h == HashMod(deterministicHash(IdStr(eid) \o <<45>> \o SignStr(sign), 0), 1000)
             jitter == Div(h * 3500, 1000) - 1750
             start == (IF sign > 0 THEN 0 ELSE PI) + jitter
             maxRelR == SeqMax([i \in DOMAIN list |-> getRadius(ns, list[i])])
             radius == getRadius(ns, eid) + maxRelR + Px(40)
             sorted == SortedSeq(Range(list))
             angOf == [rid \in Range(list) |->
                          start + Div(PI * IndexOf(sorted, rid), Len(list) + 1)]
         IN [gt |-> [id \in DOMAIN st.gt |->
                        IF id \in Range(list) THEN Polar(st.gt[eid], angOf[id], radius)
                        ELSE st.gt[id]],
             hint |-> SetAll(st.hint, list, sign)]
\* the side of a relationship seen from an entity: recorded, else below or above, else 1
SideOf(rid, eid, st) ==
    IF FirstSign(<<rid>>, st.hint) # 0 THEN FirstSign(<<rid>>, st.hint)
    ELSE IF Sign(st.gt[rid].y - st.gt[eid].y) # 0 THEN Sign(st.gt[rid].y - st.gt[eid].y)
    ELSE 1
RECURSIVE EvenLoop(_, _, _, _, _)
EvenLoop(ents, ns, adj, mainIds, st) ==
    IF ents = <<>> THEN st
    ELSE LET eid == Head(ents)
             relNeighbors == TypedNeighbours(ns, adj, eid, "relationship")
             up == Filter(relNeighbors, {r \in Range(relNeighbors) :
                                            SideOf(r, eid, st) >= 0 /\ r \notin mainIds})
             down == Filter(relNeighbors, {r \in Range(relNeighbors) :
                                              SideOf(r, eid, st) < 0 /\ r \notin mainIds})
         IN EvenLoop(Tail(ents), ns, adj, mainIds,
                     PlaceSide(ns, eid, down, -1, PlaceSide(ns, eid, up, 1, st)))
evenSideSpacing(ns, es, mainIds, st) ==
    EvenLoop(IdsOfType(ns, "entity"), ns, coreAdj(ns, es), mainIds, st)

\* reprojectBranches: the far entity of every branch relationship is put behind it
RECURSIVE ReprojectLoop(_, _, _, _, _)
ReprojectLoop(triples, ns, adj, mainIds, st) ==
    IF triples = <<>> THEN st
    ELSE LET eid == Head(triples)[1]
             rid == Head(triples)[2]
             oid == Head(triples)[3]
             ePos == st.gt[eid]
             ang == Atan2(st.gt[rid].y - ePos.y, st.gt[rid].x - ePos.x)
             dist == getRadius(ns, eid) + getRadius(ns, rid) + getRadius(ns, oid) + Px(80)
             newPos == Polar(ePos, ang, dist)
             curDist == Dist(ePos, st.gt[oid])
             bySine == SinSign(normalizeAngle(ang))
             byHint == FirstSign(<<rid, eid>>, st.hint)
             sign == IF bySine # 0 THEN bySine ELSE IF byHint # 0 THEN byHint ELSE 1
         IN IF rid \in mainIds \/ oid \in mainIds
            THEN ReprojectLoop(Tail(triples), ns, adj, mainIds, st)
            ELSE ReprojectLoop(Tail(triples), ns, adj, mainIds,
                     [gt |-> IF oid \in st.projected \/ dist > curDist
                             THEN [st.gt EXCEPT ![oid] = newPos] ELSE st.gt,
                      hint |-> Put(st.hint, oid, sign),
                      projected |-> st.projected \cup {oid}])
\* (entity, relationship, far entity) in the order of the three nested loops
Triples(ns, adj) ==
    LET ents == IdsOfType(ns, "entity")
        OfRel(eid, rid) == LET os == OtherEntities(ns, adj, rid, eid)
                           IN [i \in DOMAIN os |-> <<eid, rid, os[i]>>]
        OfEntity(eid) == LET rs == TypedNeighbours(ns, adj, eid, "relationship")
                         IN SeqConcat([i \in DOMAIN rs |-> OfRel(eid, rs[i])])
    IN SeqConcat([i \in DOMAIN ents |-> OfEntity(ents[i])])
reprojectBranches(ns, es, mainIds, st) ==
    LET done == ReprojectLoop(Triples(ns, coreAdj(ns, es)), ns, coreAdj(ns, es), mainIds,
                              [gt |-> st.gt, hint |-> st.hint, projected |-> {}])
    IN [gt |-> done.gt, hint |-> done.hint]

\* enforceLocalTriplets: the farther entity of a two-entity relationship is moved onto
\* the line from the nearer entity through the relationship
RECURSIVE TripletLoop(_, _, _, _, _)
TripletLoop(rels, ns, adj, mainIds, gt) ==
    IF rels = <<>> THEN gt
    ELSE LET rid == Head(rels)
             entNeighbors == TypedNeighbours(ns, adj, rid, "entity")
             e1 == entNeighbors[1]
             e2 == entNeighbors[2]
             d1 == Dist(gt[e1], gt[rid])
             d2 == Dist(gt[e2], gt[rid])
             anchor == IF d1 <= d2 THEN gt[e1] ELSE gt[e2]
             moveTarget == IF d1 <= d2 THEN e2 ELSE e1
             dx == gt[rid].x - anchor.x
             dy == gt[rid].y - anchor.y
             len == HypotOr1(dx, dy)
             reach == getRadius(ns, moveTarget) + getRadius(ns, rid) + Px(20)
         IN IF Len(entNeighbors) # 2 THEN TripletLoop(Tail(rels), ns, adj, mainIds, gt)
            ELSE IF {e1, e2, rid} \subseteq mainIds \/ moveTarget \in mainIds
            THEN TripletLoop(Tail(rels), ns, adj, mainIds, gt)
            ELSE TripletLoop(Tail(rels), ns, adj, mainIds,
                     [gt EXCEPT ![moveTarget] = Pt(gt[rid].x + Div(dx * reach, len),
                                                   gt[rid].y + Div(dy * reach, len))])
enforceLocalTriplets(ns, es, mainIds, gt) ==
    TripletLoop(IdsOfType(ns, "relationship"), ns, coreAdj(ns, es), mainIds, gt)

\* adjustRelationshipMidpoints: a branch relationship between two entities that are far
\* enough apart goes to their midpoint
RECURSIVE MidpointLoop(_, _, _, _, _)
MidpointLoop(rels, ns, adj, mainIds, gt) ==
    IF rels = <<>> THEN gt
    ELSE LET rid == Head(rels)
             entNeighbors == TypedNeighbours(ns, adj, rid, "entity")
             p1 == gt[entNeighbors[1]]
             p2 == gt[entNeighbors[2]]
             dist == Dist(p1, p2)
             minSpan == getRadius(ns, entNeighbors[1]) + getRadius(ns, entNeighbors[2])
                        + getRadius(ns, rid) * 2 + Px(40)
         IN IF rid \in mainIds \/ Len(entNeighbors) # 2
            THEN MidpointLoop(Tail(rels), ns, adj, mainIds, gt)
            ELSE IF dist = 0 \/ dist < minSpan
            THEN MidpointLoop(Tail(rels), ns, adj, mainIds, gt)
            ELSE MidpointLoop(Tail(rels), ns, adj, mainIds, [gt EXCEPT ![rid] = Midpoint(p1, p2)])
adjustRelationshipMidpoints(ns, es, mainIds, gt) ==
    MidpointLoop(IdsOfType(ns, "relationship"), ns, coreAdj(ns, es), mainIds, gt)

\* the attributes of an entity on a ring around it, stepping away from the directions
\* of its relationships
AngleGap(a, b) == Min(Abs(a - b), TwoPi - Abs(a - b))
RECURSIVE FreeAngle(_, _, _, _, _)
FreeAngle(angle, t, count, step, relAngles) ==
    LET candidate == normalizeAngle(angle + t * Div(step, count + 1))
    IN IF t >= count THEN angle
       ELSE IF \E i \in DOMAIN relAngles : AngleGap(candidate, relAngles[i]) < 1200
       THEN FreeAngle(angle, t + 1, count, step, relAngles)
       ELSE candidate
AttributeRing(ns, adj, gt, eid) ==
    LET attrs == AttrsOf(ns, eid)
        center == gt[eid]
        attrR == SeqMax([i \in DOMAIN attrs |-> getRadius(ns, attrs[i])])
        ringR == getRadius(ns, eid) + attrR + Px(8)
        relNeighbors == TypedNeighbours(ns, adj, eid, "relationship")
        relAngles == [i \in DOMAIN relNeighbors |-> AngleTo(center, gt[relNeighbors[i]])]
        step == Div(TwoPi, Len(attrs))
        sortedAttrs == SortedSeq(Range(attrs))
        AngleOf(a) ==
            LET idx == IndexOf(sortedAttrs, a) - 1
                seedK == HashMod(deterministicHash(IdStr(a), idx), 1000)
                angle == normalizeAngle(step * idx + Pct(step, 35) + (seedK - 500) * 2)
            IN FreeAngle(angle, 0, Len(attrs), step, relAngles)
    IN [a \in Range(attrs) |-> Polar(center, AngleOf(a), ringR)]
RECURSIVE AttributeLoop(_, _, _, _)
AttributeLoop(parents, ns, adj, gt) ==
    IF parents = <<>> THEN gt
    ELSE IF ~Has(gt, Head(parents)) THEN AttributeLoop(Tail(parents), ns, adj, gt)
    ELSE LET ring == AttributeRing(ns, adj, gt, Head(parents))
         IN AttributeLoop(Tail(parents), ns, adj,
                [id \in DOMAIN gt \cup DOMAIN ring |->
                    IF Has(ring, id) THEN ring[id] ELSE gt[id]])
\* attribute placement, then every node still without a target keeps its position
PlaceAttributes(ns, es, p, gt) ==
    FillTargets(ns, p, AttributeLoop(AttrParents(ns), ns, coreAdj(ns, es), gt))

\* every node of an overlapping pair takes half of the overlap
HalfShare(me, other, mainIds, overlap) == Div(overlap, 2)
\* pushA, pushB: a main-chain node is never pushed, and pushes the other node by the
\* whole overlap
pushShare(me, other, mainIds, overlap) ==
    IF me \in mainIds THEN 0 ELSE IF other \in mainIds THEN overlap ELSE Div(overlap, 2)
\* one pass of resolveCoreOverlaps
RECURSIVE ResolveLoop(_, _, _, _, _)
ResolveLoop(pairs, ids, ns, mainIds, st) ==
    IF pairs = <<>> THEN st
    ELSE LET a == ids[Head(pairs)[1]]
             b == ids[Head(pairs)[2]]
             dx == st.gt[b].x - st.gt[a].x
             dy == st.gt[b].y - st.gt[a].y
             dist == Hypot(dx, dy)
             minDist == getRadius(ns, a) + getRadius(ns, b) + Px(14)
             overlap == minDist - dist
             pushA == pushShare(a, b, mainIds, overlap)
             pushB == pushShare(b, a, mainIds, overlap)
         IN IF dist < minDist
            THEN ResolveLoop(Tail(pairs), ids, ns, mainIds,
                     [gt |-> [st.gt EXCEPT
                                 ![a] = Pt(st.gt[a].x - Div(dx * pushA, Divisor(dist)),
                                           st.gt[a].y - Div(dy * pushA, Divisor(dist))),
                                 ![b] = Pt(st.gt[b].x + Div(dx * pushB, Divisor(dist)),
                                           st.gt[b].y + Div(dy * pushB, Divisor(dist)))],
                      moved |-> Max(st.moved, Max(pushA, pushB))])
            ELSE ResolveLoop(Tail(pairs), ids, ns, mainIds, st)
ResolvePass(ns, mainIds, gt) ==
    ResolveLoop(PairsOf(Len(CoreIds(ns))), CoreIds(ns), ns, mainIds, [gt |-> gt, moved |-> 0])
ResolveCap == 120
\* the recorded main-chain positions are written back
RestoreMainChain(gt, anchorPos) ==
    [id \in DOMAIN gt |-> IF Has(anchorPos, id) THEN anchorPos[id] ELSE gt[id]]

\* ------------------------------------------------------------ the state machine
MaxRounds == 2
MaxCalls == 2
Functions == {"arrange", "forceAlign", "spread", "initial"}
NoIter == [relax |-> 0, rel |-> 0, global |-> 0, resolve |-> 0]
\* a loop that makes one pass more than its cap
RunsOnceMore(done, cap) == done <= cap
\* for (let iter = 0; iter < cap; iter++): whether pass number `done` is entered
LoopRuns(done, cap) == done < cap

\* no layout function has been called yet
NoCall ==
    /\ pc = "idle"
    /\ fn = "none"
    /\ round = 1
    /\ calls = 0
    /\ iter = NoIter
    /\ entityPositions = EmptyMap
    /\ targets = EmptyMap
    /\ relAnchors = EmptyMap
    /\ relPositions = EmptyMap
    /\ baseRing = EmptyMap
    /\ systemRadius = EmptyMap
    /\ adjustPasses = 0
    /\ globalTargets = EmptyMap
    /\ sideHint = EmptyMap
    /\ mainChainIds = {}
    /\ mainAnchorPos = EmptyMap
    /\ chainPos = EmptyMap
    /\ pushLog = <<>>
    /\ placed = <<>>
    /\ handed = EmptyMap
    /\ finishCalls = 0
    /\ firstOut = [f \in Functions |-> <<>>]

\* the state of the layout calls once the input of scenario scn is loaded
LayoutInit ==
    /\ nodes = ShapeNodes(scn.shape, scn.size)
    /\ edges = ShapeEdges(scn.shape)
    /\ pos = StartPos(nodes, scn.place)
    /\ seed = scn.shape
    /\ NoCall

\* no utility call is being looked at
NoArgs == [str |-> <<>>, extraSeed |-> 0]
\* a live graph at zoom 1 with no animation under way
IdentityMatrix == [zoom |-> ZoomScale, x |-> 0, y |-> 0]
NoAnimation ==
    /\ destroyed = FALSE
    /\ autoPaint = TRUE
    /\ matrix = IdentityMatrix
    /\ painted = 0
    /\ frameQueue = <<>>
    /\ now = 0
    /\ started = <<>>
    /\ finished = <<>>
\* no node is under edit
NoEdit ==
    /\ editingNode = 0
    /\ editInput = 0
    /\ container = EmptyMap
    /\ labels = EmptyMap
    /\ timers = <<>>
    /\ sessions = <<>>

Init ==
    /\ scn \in Scenarios
    /\ LayoutInit
    /\ NoAnimation
    /\ NoEdit
    /\ args = NoArgs
    /\ returned = <<>>

\* a layout function is called on the loaded input, or arrange is run again on its result
CanCall(f) == /\ pc = "idle"
              /\ \/ calls = 0
                 \/ f = "arrange" /\ fn = "arrange" /\ calls < MaxCalls
\* the output of the first call of f on the loaded input is remembered
Remember(f, out) == IF calls = 1 /\ firstOut[f] = <<>>
                    THEN [firstOut EXCEPT ![f] = <<out>>] ELSE firstOut
RememberNow(f, out) == IF calls = 0 /\ firstOut[f] = <<>>
                       THEN [firstOut EXCEPT ![f] = <<out>>] ELSE firstOut

ArrangeStart ==
    /\ CanCall("arrange")
    /\ fn' = "arrange"
    /\ calls' = calls + 1
    /\ finishCalls' = 0
    /\ IF nodes = <<>>
       THEN /\ handed' = EmptyMap
            /\ firstOut' = RememberNow("arrange", EmptyMap)
            /\ UNCHANGED <<pc, iter, entityPositions, targets, relAnchors, relPositions,
                           baseRing, systemRadius, adjustPasses>>
       ELSE /\ pc' = "relax"
            /\ iter' = NoIter
            /\ targets' = EmptyMap
            /\ relAnchors' = EmptyMap
            /\ relPositions' = EmptyMap
            /\ entityPositions' = [id \in Range(IdsOfType(nodes, "entity")) |-> pos[id]]
            /\ baseRing' = [id \in Range(IdsOfType(nodes, "entity")) |->
                               RingRadius(nodes, edges, id)]
            /\ systemRadius' = [id \in Range(IdsOfType(nodes, "entity")) |->
                                   SystemRadius(nodes, edges, id)]
            /\ adjustPasses' = 0
            /\ UNCHANGED <<handed, firstOut>>
    /\ UNCHANGED <<args, returned, animVars, editVars>>
    /\ UNCHANGED <<scn, nodes, edges, pos, seed, round, globalTargets, sideHint,
                   mainChainIds, mainAnchorPos, chainPos, pushLog, placed>>

ArrangeRelaxIter ==
    /\ pc = "relax"
    /\ \E pass \in {RelaxPass(nodes, edges, systemRadius, entityPositions)} :
          /\ entityPositions' = pass.ep
          /\ iter' = [iter EXCEPT !.relax = @ + 1]
          /\ pc' = IF pass.maxMove < 5 \/ ~LoopRuns(iter.relax + 1, RelaxCap)
                   THEN "place" ELSE "relax"
    /\ UNCHANGED <<args, returned, animVars, editVars>>
    /\ UNCHANGED <<scn, nodes, edges, pos, seed, fn, round, calls, targets, relAnchors,
                   relPositions, baseRing, systemRadius, adjustPasses, globalTargets,
                   sideHint, mainChainIds, mainAnchorPos, chainPos, pushLog, placed, handed,
                   finishCalls, firstOut>>

ArrangePlace ==
    /\ pc = "place"
    /\ \E ep \in {ensureRelationshipClearance(nodes, edges, baseRing,
                     ensureRelationshipClearance(nodes, edges, baseRing,
                         ensureRelationshipClearance(nodes, edges, baseRing, entityPositions)))} :
       \E sat \in {SatelliteLoop(IdsOfType(nodes, "entity"), nodes, edges, pos, ep, baseRing,
                                 [targets |-> ep, passes |-> 0])},
          anchors \in {RelAnchors(nodes, edges, ep)} :
       \E tg \in {[id \in DOMAIN sat.targets \cup DOMAIN anchors |->
                      IF Has(anchors, id) THEN anchors[id] ELSE sat.targets[id]]} :
          /\ entityPositions' = ep
          /\ adjustPasses' = sat.passes
          /\ relAnchors' = anchors
          /\ IF DOMAIN anchors # {}
             THEN /\ relPositions' = anchors
                  /\ targets' = tg
                  /\ pc' = "relrelax"
             ELSE /\ relPositions' = EmptyMap
                  /\ targets' = FillTargets(nodes, pos, tg)
                  /\ pc' = "global"
    /\ UNCHANGED <<args, returned, animVars, editVars>>
    /\ UNCHANGED <<scn, nodes, edges, pos, seed, fn, round, calls, iter, baseRing,
                   systemRadius, globalTargets, sideHint, mainChainIds, mainAnchorPos, chainPos,
                   pushLog, placed, handed, finishCalls, firstOut>>

ArrangeRelIter ==
    /\ pc = "relrelax"
    /\ \E rp \in {RelRelaxPass(nodes, edges, entityPositions, baseRing, relAnchors, relPositions)} :
          /\ relPositions' = rp
          /\ iter' = [iter EXCEPT !.rel = @ + 1]
          /\ IF LoopRuns(iter.rel + 1, RelRelaxCap)
             THEN UNCHANGED <<pc, targets>>
             ELSE /\ pc' = "global"
                  /\ targets' = FillTargets(nodes, pos,
                                    [id \in DOMAIN targets \cup DOMAIN rp |->
                                        IF Has(rp, id) THEN rp[id] ELSE targets[id]])
    /\ UNCHANGED <<args, returned, animVars, editVars>>
    /\ UNCHANGED <<scn, nodes, edges, pos, seed, fn, round, calls, entityPositions,
                   relAnchors, baseRing, systemRadius, adjustPasses, globalTargets,
                   sideHint, mainChainIds, mainAnchorPos, chainPos, pushLog, placed, handed,
                   finishCalls, firstOut>>

ArrangeGlobalIter ==
    /\ pc = "global"
    /\ \E pass \in {GlobalPass(nodes, targets)} :
          /\ targets' = pass.ep
          /\ iter' = [iter EXCEPT !.global = @ + 1]
          /\ pc' = IF pass.maxMove < 3 \/ ~LoopRuns(iter.global + 1, GlobalCap)
                   THEN "hand" ELSE "global"
    /\ UNCHANGED <<args, returned, animVars, editVars>>
    /\ UNCHANGED <<scn, nodes, edges, pos, seed, fn, round, calls, entityPositions,
                   relAnchors, relPositions, baseRing, systemRadius, adjustPasses,
                   globalTargets, sideHint, mainChainIds, mainAnchorPos, chainPos, pushLog, placed,
                   handed, finishCalls, firstOut>>

\* forceAlignLayout up to the tiling; containerWidth is the width of the container
ForceAlignStart ==
    /\ CanCall("forceAlign")
    /\ fn' = "forceAlign"
    /\ calls' = calls + 1
    /\ finishCalls' = 0
    /\ IF nodes = <<>> \/ CoreIds(nodes) = <<>> \/ DOMAIN coreAdj(nodes, edges) = {}
       THEN /\ handed' = EmptyMap
            /\ firstOut' = RememberNow("forceAlign", EmptyMap)
            /\ UNCHANGED <<pc, iter, globalTargets, sideHint, mainChainIds, mainAnchorPos,
                           chainPos, pushLog>>
       ELSE \E tiled \in {TileComponents(nodes, edges, pos, graphWidth)} :
               /\ pc' = "even"
               /\ iter' = NoIter
               /\ globalTargets' = tiled.globalTargets
               /\ sideHint' = tiled.sideHint
               /\ mainChainIds' = tiled.mainChainIds
               /\ mainAnchorPos' = [id \in tiled.mainChainIds |-> tiled.globalTargets[id]]
               /\ chainPos' = tiled.chainPos
               /\ pushLog' = tiled.pushes
               /\ UNCHANGED <<handed, firstOut>>
    /\ UNCHANGED <<args, returned, animVars, editVars>>
    /\ UNCHANGED <<scn, nodes, edges, pos, seed, round, entityPositions, targets, relAnchors,
                   relPositions, baseRing, systemRadius, adjustPasses, placed>>

\* one of the passes between tiling and overlap resolution
ForceAlignPass(at, next, gt, hint) ==
    /\ pc = at
    /\ pc' = next
    /\ globalTargets' = gt
    /\ sideHint' = hint
    /\ UNCHANGED <<args, returned, animVars, editVars>>
    /\ UNCHANGED <<scn, nodes, edges, pos, seed, fn, round, calls, iter, entityPositions,
                   targets, relAnchors, relPositions, baseRing, systemRadius, adjustPasses,
                   mainChainIds, mainAnchorPos, chainPos, pushLog, placed, handed,
                   finishCalls, firstOut>>
ForceAlignEven ==
    /\ pc = "even"
    /\ \E done \in {evenSideSpacing(nodes, edges, mainChainIds,
                                    [gt |-> globalTargets, hint |-> sideHint])} :
           ForceAlignPass("even", "reproject", done.gt, done.hint)
ForceAlignReproject ==
    /\ pc = "reproject"
    /\ \E done \in {reprojectBranches(nodes, edges, mainChainIds,
                                      [gt |-> globalTargets, hint |-> sideHint])} :
           ForceAlignPass("reproject", "triplets", done.gt, done.hint)
ForceAlignTriplets ==
    ForceAlignPass("triplets", "midpoints",
                   enforceLocalTriplets(nodes, edges, mainChainIds, globalTargets), sideHint)
ForceAlignMidpoints ==
    ForceAlignPass("midpoints", "attributes",
                   adjustRelationshipMidpoints(nodes, edges, mainChainIds, globalTargets),
                   sideHint)
ForceAlignAttributes ==
    ForceAlignPass("attributes", "resolve",
                   PlaceAttributes(nodes, edges, pos, globalTargets), sideHint)

ForceAlignResolveIter ==
    /\ pc = "resolve"
    /\ \E pass \in {ResolvePass(nodes, mainChainIds, globalTargets)} :
          /\ globalTargets' = pass.gt
          /\ iter' = [iter EXCEPT !.resolve = @ + 1]
          /\ pc' = IF pass.moved < 5 \/ ~LoopRuns(iter.resolve + 1, ResolveCap)
                   THEN "restore" ELSE "resolve"
    /\ UNCHANGED <<args, returned, animVars, editVars>>
    /\ UNCHANGED <<scn, nodes, edges, pos, seed, fn, round, calls, entityPositions, targets,
                   relAnchors, relPositions, baseRing, systemRadius, adjustPasses, sideHint,
                   mainChainIds, mainAnchorPos, chainPos, pushLog, placed, handed,
                   finishCalls, firstOut>>

ForceAlignRestore ==
    /\ pc = "restore"
    /\ globalTargets' = RestoreMainChain(globalTargets, mainAnchorPos)
    /\ pc' = "hand"
    /\ UNCHANGED <<args, returned, animVars, editVars>>
    /\ UNCHANGED <<scn, nodes, edges, pos, seed, fn, round, calls, iter, entityPositions,
                   targets, relAnchors, relPositions, baseRing, systemRadius, adjustPasses,
                   sideHint, mainChainIds, mainAnchorPos, chainPos, pushLog, placed, handed,
                   finishCalls, firstOut>>

\* a hand-over that also writes the targets into the live node models
HandAndMove ==
    /\ pc = "hand"
    /\ handed' = (IF fn = "forceAlign" THEN globalTargets ELSE targets)
    /\ pos' = handed'
    /\ firstOut' = Remember(fn, handed')
    /\ pc' = "animating"
    /\ UNCHANGED <<args, returned, animVars, editVars>>
    /\ UNCHANGED <<scn, nodes, edges, seed, fn, round, calls, iter, entityPositions,
                   targets, relAnchors, relPositions, baseRing, systemRadius, adjustPasses,
                   globalTargets, sideHint, mainChainIds, mainAnchorPos, chainPos, pushLog, placed,
                   finishCalls>>
\* animateNodesToTargets(graph, targets, ...) at the end of arrange and force-align
Hand ==
    /\ pc = "hand"
    /\ handed' = (IF fn = "forceAlign" THEN globalTargets ELSE targets)
    /\ firstOut' = Remember(fn, IF fn = "forceAlign" THEN globalTargets ELSE targets)
    /\ pc' = "animating"
    /\ UNCHANGED <<args, returned, animVars, editVars>>
    /\ UNCHANGED <<scn, nodes, edges, pos, seed, fn, round, calls, iter, entityPositions,
                   targets, relAnchors, relPositions, baseRing, systemRadius, adjustPasses,
                   globalTargets, sideHint, mainChainIds, mainAnchorPos, chainPos, pushLog, placed,
                   finishCalls>>

\* the last frame of the animation: every target that names a node is applied, onFinish runs
AnimationFinish ==
    /\ pc = "animating"
    /\ pos' = [id \in IdSet(nodes) |-> IF Has(handed, id) THEN handed[id] ELSE pos[id]]
    /\ finishCalls' = finishCalls + 1
    /\ pc' = "idle"
    /\ UNCHANGED <<args, returned, animVars, editVars>>
    /\ UNCHANGED <<scn, nodes, edges, seed, fn, round, calls, iter, entityPositions,
                   targets, relAnchors, relPositions, baseRing, systemRadius, adjustPasses,
                   globalTargets, sideHint, mainChainIds, mainAnchorPos, chainPos, pushLog, placed,
                   handed, firstOut>>

Spread ==
    /\ CanCall("spread")
    /\ \E res \in {spreadDisconnectedComponents(nodes, edges, pos)} :
          /\ pushLog' = <<res.pushes>>
          /\ IF res.noop
             THEN /\ handed' = EmptyMap
                  /\ firstOut' = RememberNow("spread", EmptyMap)
                  /\ finishCalls' = 1
                  /\ placed' = <<>>
                  /\ UNCHANGED <<pc, targets>>
             ELSE /\ targets' = res.targets
                  /\ placed' = res.placed
                  /\ handed' = res.targets
                  /\ firstOut' = RememberNow("spread", res.targets)
                  /\ finishCalls' = 0
                  /\ pc' = "animating"
    /\ fn' = "spread"
    /\ calls' = calls + 1
    /\ UNCHANGED <<args, returned, animVars, editVars>>
    /\ UNCHANGED <<scn, nodes, edges, pos, seed, round, iter, entityPositions, relAnchors,
                   relPositions, baseRing, systemRadius, adjustPasses, globalTargets,
                   sideHint, mainChainIds, mainAnchorPos, chainPos>>

InitialPlacement ==
    /\ CanCall("initial")
    /\ \E res \in {applyInitialComponentPositions(nodes, edges, pos, seed)} :
          /\ pushLog' = <<res.pushes>>
          /\ IF res.noop
             THEN /\ firstOut' = RememberNow("initial", pos)
                  /\ placed' = <<>>
                  /\ UNCHANGED pos
             ELSE /\ pos' = res.pos
                  /\ placed' = res.placed
                  /\ firstOut' = RememberNow("initial", res.pos)
    /\ fn' = "initial"
    /\ calls' = calls + 1
    /\ finishCalls' = 0
    /\ handed' = EmptyMap
    /\ UNCHANGED <<args, returned, animVars, editVars>>
    /\ UNCHANGED <<scn, nodes, edges, seed, pc, round, iter, entityPositions, targets,
                   relAnchors, relPositions, baseRing, systemRadius, adjustPasses,
                   globalTargets, sideHint, mainChainIds, mainAnchorPos, chainPos>>

\* the same input is loaded again; nothing a layout call left behind is cleared
Reload ==
    /\ pc = "idle"
    /\ calls > 0
    /\ round < MaxRounds
    /\ round' = round + 1
    /\ pos' = StartPos(nodes, scn.place)
    /\ calls' = 0
    /\ fn' = "none"
    /\ UNCHANGED <<args, returned, animVars, editVars>>
    /\ UNCHANGED <<scn, nodes, edges, seed, pc, iter, entityPositions, targets, relAnchors,
                   relPositions, baseRing, systemRadius, adjustPasses, globalTargets,
                   sideHint, mainChainIds, mainAnchorPos, chainPos, pushLog, placed, handed,
                   finishCalls, firstOut>>

Next ==
    \/ ArrangeStart
    \/ ArrangeRelaxIter
    \/ ArrangePlace
    \/ ArrangeRelIter
    \/ ArrangeGlobalIter
    \/ ForceAlignStart
    \/ ForceAlignEven
    \/ ForceAlignReproject
    \/ ForceAlignTriplets
    \/ ForceAlignMidpoints
    \/ ForceAlignAttributes
    \/ ForceAlignResolveIter
    \/ ForceAlignRestore
    \/ Hand
    \/ AnimationFinish
    \/ Spread
    \/ InitialPlacement
    \/ Reload

Spec == Init /\ [][Next]_vars

\* the specification with the scheduling of the browser: a call that has started keeps
\* running (its synchronous code and its animation frames are never abandoned), while
\* nothing obliges the user to start a call.  This is weak fairness of the steps of a
\* running call, with their enabling condition pc # "idle" written out
FairSpec == Spec /\ ([]<>(pc = "idle") \/ []<><<Next>>_vars)

\* ------------------------------------------------------------ utils.js, called on its own
MaxLen == 3
MaxRepeat == 2
\* character codes of 'a' and 'z'
Alphabet == {97, 122}
RECURSIVE Strings(_)
Strings(n) == IF n = 0 THEN {<<>>}
              ELSE Strings(n - 1) \cup {Append(w, c) : w \in {v \in Strings(n - 1) : Len(v) = n - 1}, c \in Alphabet}
\* 32-bit seeds: small ones, both extremes, and one that folds 'a' to the minimum
Seeds == {0, 1, -1, 2147483647, -2147483647 - 1, -2008936319}

HashInit ==
    /\ scn = CHOOSE s \in Scenarios : TRUE
    /\ LayoutInit
    /\ NoAnimation
    /\ NoEdit
    /\ args \in [str : Strings(MaxLen), extraSeed : Seeds]
    /\ returned = <<>>

\* deterministicHash(str, extraSeed) is called, once more on the same arguments
HashCall ==
    /\ Len(returned) < MaxRepeat
    /\ returned' = Append(returned, deterministicHash(args.str, args.extraSeed))
    /\ UNCHANGED <<scn, nodes, edges, pos, seed, pc, fn, round, calls, iter, entityPositions,
                   targets, relAnchors, relPositions, baseRing, systemRadius, adjustPasses,
                   globalTargets, sideHint, mainChainIds, mainAnchorPos, chainPos,
                   pushLog, placed, handed, finishCalls, firstOut, args>>
    /\ UNCHANGED <<animVars, editVars>>

HashNext == HashCall
HashSpec == HashInit /\ [][HashNext]_vars

\* ------------------------------------------------------------ the walks over arbitrary graphs
MaxNodes == 5
MaxEdges == 5
\* kind 1: entities only; kind 2: ids 2 and 3 are relationships; kind 3: the last listed
\* node is an attribute of entity 1.  The largest graphs come in kind 2 only.
GraphKinds(n) == IF n < MaxNodes THEN 1 .. 3 ELSE {2}
GraphNodes(n, kind) ==
    [i \in 1 .. n |-> IF kind = 2 /\ i \in {2, 3} THEN R(i)
                      ELSE IF kind = 3 /\ i = n /\ n > 1 THEN A(i, 1)
                      ELSE E(i, 1)]
\* an edge from i to j > i is written 10 * i + j; edges are listed in increasing order
PairCodes(n) == {c \in 12 .. (11 * n) : (c % 10) \in ((c \div 10) + 1) .. n}
GraphEdges(codes) ==
    LET listed == SortedSeq(codes)
    IN [k \in DOMAIN listed |-> Edge(listed[k] \div 10, listed[k] % 10)]
\* entity 1 with r relationships 2 .. r + 1 around it, each joining it to an entity of
\* its own (far) or to nothing else
MaxStar == 5
StarNodes(r, far) ==
    [i \in 1 .. (IF far THEN 2 * r + 1 ELSE r + 1) |->
        IF i \in 2 .. (r + 1) THEN R(i) ELSE E(i, 1)]
StarEdges(r, far) ==
    [k \in 1 .. (IF far THEN 2 * r ELSE r) |->
        IF k <= r THEN Edge(1, k + 1) ELSE Edge(k - r + 1, k + 1)]

GraphInit ==
    /\ scn = [shape |-> 0, place |-> 3, size |-> 1]
    /\ \/ \E n \in 1 .. MaxNodes :
              \E kind \in GraphKinds(n),
                 codes \in {c \in SUBSET PairCodes(n) : Cardinality(c) <= MaxEdges} :
                  /\ nodes = GraphNodes(n, kind)
                  /\ edges = GraphEdges(codes)
       \/ \E r \in 1 .. MaxStar, far \in BOOLEAN :
              /\ nodes = StarNodes(r, far)
              /\ edges = StarEdges(r, far)
    /\ pos = StartPos(nodes, scn.place)
    /\ seed = 1
    /\ NoCall
    /\ NoAnimation
    /\ NoEdit
    /\ args = NoArgs
    /\ returned = <<>>

GraphUnchanged ==
    UNCHANGED <<scn, nodes, edges, pos, seed, pc, fn, round, calls, iter, entityPositions,
                targets, relAnchors, relPositions, baseRing, systemRadius, adjustPasses,
                globalTargets, sideHint, mainChainIds, mainAnchorPos, chainPos,
                pushLog, placed, handed, finishCalls, firstOut, args, animVars, editVars>>
\* spread decomposes the graph
SpreadDecompose ==
    /\ returned = <<>>
    /\ nodes # <<>>
    /\ returned' = <<[f |-> "spread", components |-> SortedWalk(nodes, edges).components]>>
    /\ GraphUnchanged
\* initial placement decomposes the graph
InitialDecompose ==
    /\ returned = <<>>
    /\ nodes # <<>>
    /\ returned' = <<[f |-> "initial", components |-> SortedWalk(nodes, edges).components]>>
    /\ GraphUnchanged
\* force-align decomposes the core subgraph, unless no edge joins two core nodes
CoreDecompose ==
    /\ returned = <<>>
    /\ CoreIds(nodes) # <<>>
    /\ coreAdj(nodes, edges) # EmptyMap
    /\ returned' = <<[f |-> "forceAlign", components |-> CoreWalk(nodes, edges).components]>>
    /\ GraphUnchanged
\* layoutComponent looks for the main chain of every core component
MainChains ==
    /\ returned = <<>>
    /\ CoreIds(nodes) # <<>>
    /\ coreAdj(nodes, edges) # EmptyMap
    /\ \E comps \in {CoreWalk(nodes, edges).components} :
           returned' = <<[f |-> "findLongestPath", components |-> comps,
                          paths |-> [i \in DOMAIN comps |->
                                        findLongestPath(comps[i], coreAdj(nodes, edges)).path]]>>
    /\ GraphUnchanged
\* the side signs before and after the branch pre-assignment of every component; a
\* component starts from the signs the layout of the one before it has left
BranchRecord(comps, layouts, ns, adj) ==
    [f |-> "branches", components |-> comps,
     mainPaths |-> [i \in DOMAIN comps |-> layouts[i].mainPath],
     before |-> [i \in DOMAIN comps |-> IF i = 1 THEN EmptyMap ELSE layouts[i - 1].hint],
     after |-> [i \in DOMAIN comps |->
                   BranchSides(comps[i], ns, IF i = 1 THEN EmptyMap ELSE layouts[i - 1].hint,
                               adj, layouts[i].mainPath).hint]]
\* layoutComponent assigns the sides of the branches of every core component
BranchAssign ==
    /\ returned = <<>>
    /\ CoreIds(nodes) # <<>>
    /\ coreAdj(nodes, edges) # EmptyMap
    /\ \E comps \in {CoreWalk(nodes, edges).components} :
           \E layouts \in {LayoutsLoop(comps, nodes, edges, pos, <<>>)} :
               returned' = <<BranchRecord(comps, layouts, nodes, coreAdj(nodes, edges))>>
    /\ GraphUnchanged
\* layoutComponent places the relationships around the entities of its queue
WedgeAllocate ==
    /\ returned = <<>>
    /\ CoreIds(nodes) # <<>>
    /\ coreAdj(nodes, edges) # EmptyMap
    /\ \E layouts \in {LayoutsLoop(CoreWalk(nodes, edges).components, nodes, edges, pos, <<>>)} :
           returned' = <<[f |-> "wedges",
                          wedges |-> SeqConcat([i \in DOMAIN layouts |-> layouts[i].wedges])]>>
    /\ GraphUnchanged

GraphNext ==
    \/ SpreadDecompose
    \/ InitialDecompose
    \/ CoreDecompose
    \/ MainChains
    \/ BranchAssign
    \/ WedgeAllocate
GraphSpec == GraphInit /\ [][GraphNext]_vars

\* ------------------------------------------------------------ properties
\* what the last call produced: the positions it left (initial placement) or the target
\* map it handed over
Output == IF fn = "initial" THEN pos ELSE handed
ComponentCount == Len(SortedWalk(nodes, edges).components)

\* C1: whenever arrange, force-align or spread hands a target map to the animation driver,
\* the map has an entry for every node id of the graph
TargetsComplete ==
    (pc = "animating" /\ fn \in {"arrange", "forceAlign", "spread"})
        => DOMAIN handed = IdSet(nodes)
\* a map is handed over for a graph with an attribute whose parentEntity names no node
TargetsCompleteWitness ==
    /\ pc = "animating"
    /\ fn \in {"arrange", "forceAlign"}
    /\ \E i \in DOMAIN nodes : /\ nodes[i].nodeType = "attribute"
                               /\ nodes[i].parentEntity \notin IdSet(nodes)
                               /\ Has(handed, nodes[i].id)

MainChainFixed ==
    (fn = "forceAlign" /\ pc \in {"even", "reproject", "triplets", "midpoints", "attributes",
                                  "resolve", "restore", "hand", "animating"})
        => \A id \in mainChainIds :
              /\ globalTargets[id] = chainPos[id]
              /\ mainAnchorPos[id] = chainPos[id]
              /\ pc = "animating" => handed[id] = chainPos[id]
\* the overlap resolution has pushed nodes for several passes next to a main chain
MainChainFixedWitness ==
    /\ fn = "forceAlign" /\ pc = "animating"
    /\ iter.resolve >= 2
    /\ mainChainIds # {}
    /\ \E id \in DOMAIN handed \ mainChainIds : isCore(TypeOf(nodes, id))

\* no capped loop makes more passes than its cap, the count-adjustment loops make no
\* more passes than there are nodes, and no traversal pushes an id twice
NoRepeat(s) == \A i, j \in DOMAIN s : i # j => s[i] # s[j]
Bounded ==
    /\ iter.relax <= RelaxCap
    /\ iter.rel <= RelRelaxCap
    /\ iter.global <= GlobalCap
    /\ iter.resolve <= ResolveCap
    /\ adjustPasses <= Len(nodes)
    /\ \A k \in DOMAIN pushLog : NoRepeat(pushLog[k])
\* C9: every layout call finishes, within the caps of its loops (300, 80 and 400 passes in
\* arrange, 120 in force-align), with count-adjustment loops that stop and traversals that
\* push every node at most once
Terminates == []Bounded /\ ((pc # "idle") ~> (pc = "idle"))
\* a force-align call on a graph with a cycle has finished after all 120 resolution passes
TerminatesWitness ==
    /\ pc = "idle" /\ fn = "forceAlign" /\ finishCalls = 1
    /\ iter.resolve = ResolveCap
    /\ \E k \in DOMAIN pushLog : Len(pushLog[k]) >= 4

\* C10: with at most one node no call changes a position, and a target map that is handed
\* over equals the current positions; with fewer than two connected components initial
\* placement and spread change no position and hand over nothing
DegenerateNoop ==
    /\ Len(nodes) <= 1 => /\ pos = StartPos(nodes, scn.place)
                          /\ handed = EmptyMap \/ handed = pos
    /\ (fn \in {"initial", "spread"} /\ ComponentCount < 2)
          => /\ pos = StartPos(nodes, scn.place)
             /\ handed = EmptyMap
             /\ pc = "idle"
\* arrange has run on a single node and handed over the position the node already had
DegenerateNoopWitness ==
    Len(nodes) = 1 /\ fn = "arrange" /\ pc = "idle" /\ handed = pos /\ finishCalls = 1

\* the slack of two nodes in a target map: distance minus both radii
Clearance(m, a, b) == Dist(m[a], m[b]) - getRadius(nodes, a) - getRadius(nodes, b)
\* C4: in the target map handed over by arrange and by force-align, every two distinct
\* nodes are at least the sum of their radii apart, less an epsilon of one unit
NonOverlap ==
    (pc = "animating" /\ fn \in {"arrange", "forceAlign"})
        => \A a, b \in DOMAIN handed : a # b => Clearance(handed, a, b) >= -Px(1)

\* the slack of two placed components: distance of the centres minus both radii
Separation(i, j) ==
    Dist(placed[i].center, placed[j].center) - placed[i].radius - placed[j].radius
\* C5: after spread the placed centres of every two components are at least the sum of
\* their radii plus 50 apart, after initial placement the sum of their radii plus 100
ComponentsSeparated ==
    /\ (fn = "spread" /\ calls = 1)
          => \A i, j \in DOMAIN placed : i # j => Separation(i, j) >= Px(50)
    /\ (fn = "initial" /\ calls = 1)
          => \A i, j \in DOMAIN placed : i # j => Separation(i, j) >= Px(100)

\* C6: when spread has placed exactly three components of one entity each, the centres
\* of every two of them are at least the sum of their radii plus 40 apart
ThreeEntitiesSeparated ==
    (/\ fn = "spread" /\ calls = 1
     /\ Len(placed) = 3
     /\ \A i \in DOMAIN placed : /\ Len(placed[i].members) = 1
                                 /\ TypeOf(nodes, placed[i].members[1]) = "entity")
        => \A i, j \in DOMAIN placed : i # j => Separation(i, j) >= Px(40)

\* Scenario A: entities 1 and 2 joined by relationship 3, attributes 4 and 5 on entity 1
ScenarioA == scn.shape = 6
ScenarioDistance == systemRadius[1] + systemRadius[2] + Px(safeGap)
\* C7 as stated: in scenario A arrange places the relationship at the distance
\* systemRadius(E1) + systemRadius(E2) + 50 from both entity centres, to within one unit
RelationAtFullDistance ==
    (ScenarioA /\ fn = "arrange" /\ pc = "animating")
        => /\ Abs(Dist(handed[3], handed[1]) - ScenarioDistance) <= Px(1)
           /\ Abs(Dist(handed[3], handed[2]) - ScenarioDistance) <= Px(1)
\* C7: in scenario A arrange places the relationship on the axis of the two entities at
\* the midpoint of their centres, to within one unit; entities that started at different
\* points end systemRadius(E1) + systemRadius(E2) + 50 or more apart, less one unit, so
\* that the relationship lies at half that distance or more from both centres
RelationMidway ==
    (ScenarioA /\ fn = "arrange" /\ pc = "animating")
        => /\ Abs(2 * handed[3].x - (handed[1].x + handed[2].x)) <= 2 * Px(1)
           /\ Abs(2 * handed[3].y - (handed[1].y + handed[2].y)) <= 2 * Px(1)
           /\ pos[1] # pos[2]
                 => /\ Dist(handed[1], handed[2]) >= ScenarioDistance - Px(1)
                    /\ 2 * Dist(handed[3], handed[1]) >= ScenarioDistance - 3 * Px(1)
                    /\ 2 * Dist(handed[3], handed[2]) >= ScenarioDistance - 3 * Px(1)
\* arrange has placed scenario A with the entities at that distance from each other
RelationMidwayWitness ==
    /\ ScenarioA /\ fn = "arrange" /\ pc = "animating" /\ calls = 1
    /\ pos[1] # pos[2]
    /\ Abs(Dist(handed[1], handed[2]) - ScenarioDistance) <= Px(1)
    /\ Dist(handed[3], handed[1]) < ScenarioDistance - Px(100)

\* C8: when arrange is run again on the positions its first run produced, no target is
\* half a unit or more away from the node's position
Idempotent ==
    (fn = "arrange" /\ calls = 2 /\ pc = "animating")
        => \A id \in DOMAIN handed : 2 * Dist(handed[id], pos[id]) < Px(1)

\* the distinct entities a relationship is joined to by an edge
EntitiesOf(rid) ==
    {id \in Range(IdsOfType(nodes, "entity")) :
        \E i \in DOMAIN edges : {edges[i].source, edges[i].target} = {rid, id}}
\* the relationships whose number of entities is other than two
Unsupported ==
    {rid \in Range(IdsOfType(nodes, "relationship")) : Cardinality(EntitiesOf(rid)) # 2}
\* the edges of the graph without those that touch such a relationship
SupportedEdges ==
    LET keep == {i \in DOMAIN edges : {edges[i].source, edges[i].target} \cap Unsupported = {}}
    IN [k \in 1..Cardinality(keep) |->
           edges[CHOOSE i \in keep : Cardinality({j \in keep : j < i}) = k - 1]]
\* arrange, when the global pass begins: such a relationship is no anchored relationship; with
\* one entity it lies on the ring of that entity, otherwise its target is its position
UnsupportedPlaced ==
    (fn = "arrange" /\ pc = "global" /\ iter.global = 0)
        => \A rid \in Unsupported :
              /\ ~Has(relAnchors, rid)
              /\ IF Cardinality(EntitiesOf(rid)) = 1
                 THEN \A eid \in EntitiesOf(rid) :
                         Abs(Dist(targets[rid], entityPositions[eid]) - baseRing[eid]) <= Px(1)
                 ELSE targets[rid] = pos[rid]
\* the passes that work on two-entity relationships do what they would do on the graph
\* without the edges of the other relationships, and the midpoint pass leaves these alone
UnsupportedSkipped ==
    /\ (fn = "arrange" /\ pc = "relax")
          => entityPositions' = RelaxPass(nodes, SupportedEdges, systemRadius, entityPositions).ep
    /\ (fn = "arrange" /\ pc = "place")
          => /\ entityPositions' =
                   ensureRelationshipClearance(nodes, SupportedEdges, baseRing,
                       ensureRelationshipClearance(nodes, SupportedEdges, baseRing,
                           ensureRelationshipClearance(nodes, SupportedEdges, baseRing,
                                                       entityPositions)))
             /\ relAnchors' = RelAnchors(nodes, SupportedEdges, entityPositions')
    /\ (fn = "arrange" /\ pc = "relrelax")
          => DOMAIN relPositions' \cap Unsupported = {}
    /\ (fn = "forceAlign" /\ pc = "triplets")
          => globalTargets' = enforceLocalTriplets(nodes, SupportedEdges, mainChainIds,
                                                   globalTargets)
    /\ (fn = "forceAlign" /\ pc = "midpoints")
          => \A rid \in Unsupported : globalTargets'[rid] = globalTargets[rid]
\* C11: a relationship whose number of distinct entities is other than two takes no part in
\* spring attraction, clearance correction, midpoint placement and same-pair grouping of
\* arrange nor in triplet straightening and midpoint snapping of force-align; arrange puts
\* it on the ring of its entity when it has exactly one and otherwise keeps its position
UnsupportedCardinality == []UnsupportedPlaced /\ [][UnsupportedSkipped]_vars
\* arrange has put a one-entity relationship on the ring of its entity
UnsupportedCardinalityWitness ==
    /\ fn = "arrange" /\ pc = "global" /\ iter.global = 0
    /\ \E rid \in Unsupported : /\ Cardinality(EntitiesOf(rid)) = 1
                                /\ targets[rid] # pos[rid]

\* arrange computes a target for the entities, for the attributes of an entity and for the
\* relationships of one or two entities; the other nodes have none before the fill
ArrangeUnplaced ==
    {id \in IdSet(nodes) :
        \/ TypeOf(nodes, id) = "attribute"
              /\ TypeOf(nodes, NodeOf(nodes, id).parentEntity) # "entity"
        \/ TypeOf(nodes, id) = "relationship" /\ Cardinality(EntitiesOf(id)) \notin {1, 2}}
\* the core nodes that neither the main chain nor the branch walk of their component placed
CoreUnreached ==
    LET walk == CoreWalk(nodes, edges)
        layouts == LayoutsLoop(walk.components, nodes, edges, pos, <<>>)
    IN UNION {DOMAIN layouts[i].targets \ layouts[i].reached : i \in DOMAIN layouts}
\* the attributes that the attribute placement of force-align puts on no ring
AttributesUnplaced ==
    {id \in IdSet(nodes) : /\ TypeOf(nodes, id) = "attribute"
                           /\ ~isCore(TypeOf(nodes, NodeOf(nodes, id).parentEntity))}
\* C12: in arrange and in force-align every node for which no target was computed has its
\* current position as its target entry: in arrange when the global pass begins, in
\* force-align for core nodes in the tiled map and for attributes after the fill
LastKnownFallback ==
    /\ (fn = "arrange" /\ pc = "global" /\ iter.global = 0)
          => \A id \in ArrangeUnplaced : targets[id] = pos[id]
    /\ (fn = "forceAlign" /\ pc = "even")
          => \A id \in CoreUnreached : globalTargets[id] = pos[id]
    /\ (fn = "forceAlign" /\ pc = "resolve" /\ iter.resolve = 0)
          => \A id \in AttributesUnplaced : globalTargets[id] = pos[id]

\* no step adds, removes or changes a node or an edge; the live positions change only when
\* initial placement writes them, when the animation driver applies the handed targets and
\* when the input is loaded again, never while arrange, force-align or spread compute
FrameStep ==
    /\ nodes' = nodes
    /\ edges' = edges
    /\ pos' # pos => \/ fn' = "initial" /\ calls' = calls + 1
                     \/ pc = "animating" /\ pc' = "idle"
                     \/ round' = round + 1
    /\ DOMAIN pos' = IdSet(nodes)
\* C13: no layout function adds or removes a node or an edge or changes a node field other
\* than its position, and arrange, force-align and spread change no live position while
\* they compute: their only effect is the target map they hand over
FrameCondition == [][FrameStep]_vars
\* arrange is about to hand over targets that differ from the positions, which are still
\* the ones the input was loaded with
FrameConditionWitness ==
    /\ fn = "arrange" /\ pc = "hand" /\ calls = 1
    /\ pos = StartPos(nodes, scn.place)
    /\ \E id \in DOMAIN targets : targets[id] # pos[id]

\* C14: a call of arrange on a graph with nodes and a call of force-align on a graph with
\* core nodes (entities, relationships) hands over a target map and, when its animation has
\* finished, has signalled completion exactly once; force-align does nothing only when
\* there is no core node
OutputAndCompletion ==
    /\ (fn = "arrange" /\ nodes # <<>>) \/ (fn = "forceAlign" /\ CoreIds(nodes) # <<>>)
          => /\ pc # "idle"
                \/ /\ DOMAIN handed # {}
                   /\ finishCalls = 1
             /\ pc = "animating" => DOMAIN handed # {} /\ finishCalls = 0
             /\ finishCalls <= 1
    /\ (fn = "forceAlign" /\ CoreIds(nodes) = <<>>)
          => pc = "idle" /\ handed = EmptyMap /\ finishCalls = 0

\* the same graph with its nodes and its edges listed in the opposite order
Reverse(s) == [i \in DOMAIN s |-> s[Len(s) + 1 - i]]
\* C15: the components found by initial placement, by spread and by force-align (their
\* partition, their order, the order of their members and the order of the pushes) are the
\* same when the nodes and the edges of the input are listed in another order
SortedTraversal ==
    /\ (fn \in {"spread", "initial"} /\ calls = 1 /\ Len(nodes) >= 2)
          => /\ pushLog = <<SortedWalk(Reverse(nodes), Reverse(edges)).pushes>>
             /\ placed # <<>>
                   => [i \in DOMAIN placed |-> placed[i].members]
                          = SortedWalk(Reverse(nodes), Reverse(edges)).components
    /\ (fn = "forceAlign" /\ pc = "even")
          => /\ pushLog[1] = CoreWalk(Reverse(nodes), Reverse(edges)).pushes
             /\ CoreWalk(nodes, edges).components
                    = CoreWalk(Reverse(nodes), Reverse(edges)).components

\* the sign bit of the value folded from the arguments under call
FoldedNegative == HashLoop(args.str, Limbs(args.extraSeed)).hi >= 32768
\* a magnitude of at most 2^31, as limbs
NonNegative(h) == /\ h.hi \in 0 .. 32768
                  /\ h.lo \in 0 .. 65535
                  /\ h.hi = 32768 => h.lo = 0
\* C16: deterministicHash returns a non-negative integer for every string and every 32-bit
\* seed, also when the folded value is negative or the minimum 32-bit integer, and every
\* further call on the same arguments returns the same value
HashNonNegativeStable ==
    \A i \in DOMAIN returned : /\ NonNegative(returned[i])
                               /\ returned[i] = returned[1]
HashNonNegativeStableWitness ==
    /\ Len(returned) = MaxRepeat
    /\ args.str # <<>>
    /\ FoldedNegative
    /\ returned[MaxRepeat] = [hi |-> 32768, lo |-> 0]

\* the ids an undirected path joins to one of S
RECURSIVE Closure(_, _)
Closure(S, es) ==
    LET T == S \cup {es[i].target : i \in {k \in DOMAIN es : es[k].source \in S}}
               \cup {es[i].source : i \in {k \in DOMAIN es : es[k].target \in S}}
    IN IF T = S THEN S ELSE Closure(T, es)
PartitionByReach(comps, ids, es) ==
    /\ \A i \in DOMAIN comps : /\ Range(comps[i]) \subseteq ids
                               /\ Cardinality(Range(comps[i])) = Len(comps[i])
    /\ \A id \in ids : Cardinality({i \in DOMAIN comps : id \in Range(comps[i])}) = 1
    /\ \A a, b \in ids : (\E i \in DOMAIN comps : {a, b} \subseteq Range(comps[i]))
                             <=> b \in Closure({a}, es)
    /\ \A a \in ids : (\A i \in DOMAIN es : a \notin {es[i].source, es[i].target})
                          => \E i \in DOMAIN comps : comps[i] = <<a>>
\* C17: the components of initial placement, of spread and of force-align (core nodes and
\* the edges between them) hold every node exactly once; two nodes share a component
\* exactly when an undirected path joins them; a node without an edge is a component
PartitionByReachability ==
    \A k \in DOMAIN returned :
        /\ returned[k].f \in {"spread", "initial"}
              => PartitionByReach(returned[k].components, IdSet(nodes), edges)
        /\ returned[k].f = "forceAlign"
              => PartitionByReach(returned[k].components, Range(CoreIds(nodes)),
                                  CoreEdges(nodes, edges))
PartitionByReachabilityWitness ==
    /\ returned # <<>>
    /\ returned[1].f = "forceAlign"
    /\ Len(returned[1].components) = 2
    /\ \E i \in DOMAIN returned[1].components : Len(returned[1].components[i]) = 2
    /\ \E i \in DOMAIN nodes : ~isCore(nodes[i].nodeType)

\* the ids one edge away from S, S included
Expand(S, es) ==
    S \cup {es[i].target : i \in {k \in DOMAIN es : es[k].source \in S}}
      \cup {es[i].source : i \in {k \in DOMAIN es : es[k].target \in S}}
\* the greatest distance from the ids of S to an id they reach
RECURSIVE Eccentricity(_, _)
Eccentricity(S, es) == IF Expand(S, es) = S THEN 0 ELSE 1 + Eccentricity(Expand(S, es), es)
Diameter(ids, es) == SeqMax([i \in DOMAIN ids |-> Eccentricity({ids[i]}, es)])
Adjacent(es, a, b) == \E i \in DOMAIN es : {es[i].source, es[i].target} = {a, b}
\* a component that is a tree: one edge less than nodes
IsTree(ids, es) ==
    Cardinality({i \in DOMAIN es : es[i].source \in Range(ids)}) = Len(ids) - 1
DiameterPath(path, ids, es) ==
    /\ Range(path) \subseteq Range(ids)
    /\ Cardinality(Range(path)) = Len(path)
    /\ \A i \in 1 .. (Len(path) - 1) : Adjacent(es, path[i], path[i + 1])
    /\ Len(path) - 1 = Diameter(ids, es)
\* C18: for every connected core component, a tree or a graph with cycles, findLongestPath
\* returns a simple path of adjacent nodes with as many edges as the component's diameter
MainChainIsDiameter ==
    \A k \in DOMAIN returned :
        returned[k].f = "findLongestPath"
            => \A i \in DOMAIN returned[k].components :
                   DiameterPath(returned[k].paths[i], returned[k].components[i],
                                CoreEdges(nodes, edges))
\* on a component that is a tree the two walks do find a diameter
MainChainOfTreeIsDiameter ==
    \A k \in DOMAIN returned :
        returned[k].f = "findLongestPath"
            => \A i \in DOMAIN returned[k].components :
                   IsTree(returned[k].components[i], CoreEdges(nodes, edges))
                       => DiameterPath(returned[k].paths[i], returned[k].components[i],
                                       CoreEdges(nodes, edges))

\* the edges that touch no node of the main chain
OffChain(es, mainSet) ==
    Filter(es, {e \in Range(es) : e.source \notin mainSet /\ e.target \notin mainSet})
NonZero(hint, ids) == {hint[id] : id \in ids \cap DOMAIN hint} \ {0}
\* the branches in the order they are discovered: each has one sign, taken from a member
\* signed before, else from a signed anchor on the chain, else alternating from alt on
RECURSIVE SidesFollow(_, _, _, _, _, _, _)
SidesFollow(nonMain, es, mainSet, before, after, seen, alt) ==
    IF nonMain = <<>> THEN TRUE
    ELSE IF Head(nonMain) \in seen
    THEN SidesFollow(Tail(nonMain), es, mainSet, before, after, seen, alt)
    ELSE LET branch == Closure({Head(nonMain)}, OffChain(es, mainSet))
             anchors == {a \in mainSet : \E m \in branch : Adjacent(es, a, m)}
             own == NonZero(before, branch)
             anchored == NonZero(before, anchors)
             sign == after[Head(nonMain)]
         IN /\ \A m \in branch : Has(after, m) /\ after[m] = sign
            /\ sign \in {1, -1}
            /\ IF own # {} THEN sign \in own
               ELSE IF anchored # {} THEN sign \in anchored
               ELSE sign = alt
            /\ SidesFollow(Tail(nonMain), es, mainSet, before, after, seen \cup branch,
                           IF own = {} /\ anchored = {} THEN -alt ELSE alt)
\* C19: after the branch pre-assignment of a component every core node off the main chain
\* has side +1 or -1, the nodes of one branch share it, and it is a member's earlier
\* non-zero side, else a chain anchor's non-zero side, else the next of +1, -1, +1, ...
\* in the order the branches are discovered
BranchSideSigns ==
    \A k \in DOMAIN returned :
        returned[k].f = "branches"
            => \A i \in DOMAIN returned[k].components :
                   SidesFollow(Filter(returned[k].components[i],
                                      Range(returned[k].components[i])
                                          \ Range(returned[k].mainPaths[i])),
                               CoreEdges(nodes, edges), Range(returned[k].mainPaths[i]),
                               returned[k].before[i], returned[k].after[i], {}, 1)
BranchSideSignsWitness ==
    /\ returned # <<>>
    /\ returned[1].f = "branches"
    /\ \E i \in DOMAIN returned[1].components :
           \E a, b \in Range(returned[1].components[i]) \ Range(returned[1].mainPaths[i]) :
               /\ returned[1].after[i][a] = 1
               /\ returned[1].after[i][b] = -1
    /\ \E i \in DOMAIN nodes : nodes[i].nodeType = "relationship"

\* the wedges recorded by the last call: one for every group of relationships placed
Wedges == IF returned # <<>> /\ returned[1].f = "wedges" THEN returned[1].wedges ELSE <<>>
\* a group of k relationships is given k angles
WedgeCount == \A i \in DOMAIN Wedges : Len(Wedges[i].angles) = Len(Wedges[i].comp)
\* every angle lies strictly inside the half-plane of the side of its group
WedgeInside ==
    \A i \in DOMAIN Wedges : \A rid \in Range(Wedges[i].comp) :
        IF Wedges[i].sign > 0
        THEN 0 < Wedges[i].angleOf[rid] /\ Wedges[i].angleOf[rid] < PI
        ELSE PI < Wedges[i].angleOf[rid] /\ Wedges[i].angleOf[rid] < TwoPi
\* the relationships placed around one entity have pairwise distinct angles
WedgeDistinct ==
    \A i, j \in DOMAIN Wedges : \A a \in Range(Wedges[i].comp), b \in Range(Wedges[j].comp) :
        (Wedges[i].eid = Wedges[j].eid /\ a # b)
            => Wedges[i].angleOf[a] # Wedges[j].angleOf[b]
\* C20: in step 4 of force-align the relationships newly placed around one entity get
\* pairwise distinct angles, also across the groups of that entity, each strictly inside
\* the half-plane of the side of its group, and computeExtraAngles gives a group of k
\* relationships exactly k angles whatever the anchors, one on the boundary included
WedgeAllocation == WedgeCount /\ WedgeInside /\ WedgeDistinct

\* arrange has just placed the satellites: the entity positions are the ones it used
SatellitesPlaced == fn = "arrange" /\ pc \in {"relrelax", "global"} /\ iter.rel = 0 /\ iter.global = 0
\* the free segments around entity eid and its orbital satellites at that moment
SegmentsOf(eid) ==
    FreeSegments(AvoidAngles(Satellites(nodes, edges, eid), entityPositions, entityPositions[eid]))
OrbitalOf(eid) == OrbitalSatellites(Satellites(nodes, edges, eid))
CountsOf(eid) == SegmentCounts(SegmentsOf(eid), Len(OrbitalOf(eid))).counts
SegLen(segments, i) == segments[i].end - segments[i].start
TotalLen(segments) == SeqSum([i \in DOMAIN segments |-> SegLen(segments, i)])
\* the counts sum to the number of satellites
CountsSum(eid) == SeqSum(CountsOf(eid)) = Len(OrbitalOf(eid))
\* largest-remainder rounding: every count is the floor of its share or one more, and no
\* segment rounded up has a smaller remainder than one rounded down
IsLargestRemainder(counts, segments, totalCount) ==
    /\ \A i \in DOMAIN segments :
           counts[i] - ((totalCount * SegLen(segments, i)) \div TotalLen(segments)) \in {0, 1}
    /\ \A i, j \in DOMAIN segments :
           (/\ counts[i] = ((totalCount * SegLen(segments, i)) \div TotalLen(segments)) + 1
            /\ counts[j] = (totalCount * SegLen(segments, j)) \div TotalLen(segments))
               => (totalCount * SegLen(segments, i)) % TotalLen(segments)
                      >= (totalCount * SegLen(segments, j)) % TotalLen(segments)
\* every orbital satellite of eid sits on a ring slot of its own
OneSlotEach(eid) ==
    LET slots == SlotAngles(SegmentsOf(eid), CountsOf(eid), 1, 0)
        orbital == OrbitalOf(eid)
    IN /\ Len(slots) = Len(orbital)
       /\ \E f \in [DOMAIN orbital -> DOMAIN slots] :
              /\ \A i, j \in DOMAIN orbital : i # j => f[i] # f[j]
              /\ \A i \in DOMAIN orbital :
                     targets[orbital[i].node]
                         = OnRing(entityPositions[eid], baseRing[eid], slots[f[i]])
\* C21: for every entity of arrange the counts per free segment are the largest-remainder
\* rounding of the shares proportional to the lengths of the segments, they sum to the
\* number of orbital satellites, and every orbital satellite gets exactly one ring slot
SatelliteAllocation ==
    SatellitesPlaced =>
        \A eid \in Range(IdsOfType(nodes, "entity")) :
            OrbitalOf(eid) # <<>> =>
                /\ IsLargestRemainder(CountsOf(eid), SegmentsOf(eid), Len(OrbitalOf(eid)))
                /\ CountsSum(eid)
                /\ OneSlotEach(eid)
\* the counts sum to the number of orbital satellites and each satellite has its slot
SatelliteSlots ==
    SatellitesPlaced =>
        \A eid \in Range(IdsOfType(nodes, "entity")) :
            OrbitalOf(eid) # <<>> => CountsSum(eid) /\ OneSlotEach(eid)

\* the avoid angles of eid leave a free segment (or there is nothing to avoid)
HasFreeSegment(eid) ==
    LET avoid == AvoidAngles(Satellites(nodes, edges, eid), entityPositions, entityPositions[eid])
    IN avoid = <<>> \/ SegmentLoop(SortByKey(avoid, [a \in Range(avoid) |-> a]), 1) # <<>>
SlotsOf(eid) == SlotAngles(SegmentsOf(eid), CountsOf(eid), 1, 0)
\* a slot angle lies in one of the free segments
InFreeSegment(eid, angle) ==
    \E i \in DOMAIN SegmentsOf(eid) : \E turn \in {0, TwoPi} :
        SegmentsOf(eid)[i].start <= angle + turn /\ angle + turn <= SegmentsOf(eid)[i].end
\* the entities other than eid that a relationship links eid to
LinkedEntities(eid) ==
    LET conn == relationshipConnections(nodes, edges)
    IN UNION {Range(conn[rid]) \ {eid} : rid \in {r \in DOMAIN conn : eid \in Range(conn[r])}}
\* the same through relationships that join exactly two entities
PairedEntities(eid) ==
    LET conn == relationshipConnections(nodes, edges)
    IN UNION {Range(conn[rid]) \ {eid} :
                 rid \in {r \in DOMAIN conn : eid \in Range(conn[r]) /\ Len(conn[r]) = 2}}
AvoidsWedges(eid, others) ==
    /\ OneSlotEach(eid)
    /\ \A k \in DOMAIN SlotsOf(eid) :
           /\ InFreeSegment(eid, SlotsOf(eid)[k])
           /\ \A other \in others :
                  AngleGap(SlotsOf(eid)[k],
                           AngleTo(entityPositions[eid], entityPositions[other])) >= halfGap
\* C22: whenever an entity of arrange has a free segment, every orbital satellite is put
\* on the ring at an angle inside a free segment, at least 0.175 rad from the direction
\* towards every other entity a relationship links the entity to
WedgeAvoidance ==
    SatellitesPlaced =>
        \A eid \in Range(IdsOfType(nodes, "entity")) :
            (OrbitalOf(eid) # <<>> /\ HasFreeSegment(eid)) => AvoidsWedges(eid, LinkedEntities(eid))
\* C22 as it holds: ... from the direction towards the other entity of every relationship
\* that joins the entity to exactly one other entity
PairWedgeAvoidance ==
    SatellitesPlaced =>
        \A eid \in Range(IdsOfType(nodes, "entity")) :
            (OrbitalOf(eid) # <<>> /\ HasFreeSegment(eid)) => AvoidsWedges(eid, PairedEntities(eid))
PairWedgeAvoidanceWitness ==
    /\ SatellitesPlaced
    /\ \E eid \in Range(IdsOfType(nodes, "entity")) :
           /\ Len(OrbitalOf(eid)) >= 2
           /\ Len(SegmentsOf(eid)) >= 2
           /\ Cardinality(PairedEntities(eid)) >= 2

\* the state right after the tiling of force-align
Tiled == fn = "forceAlign" /\ pc = "even"
CoreComponents == CoreWalk(nodes, edges).components
\* the box of position plus or minus radius over the members of a component
TiledBox(ids) ==
    [minX |-> SeqMin([i \in DOMAIN ids |-> globalTargets[ids[i]].x - getRadius(nodes, ids[i])]),
     maxX |-> SeqMax([i \in DOMAIN ids |-> globalTargets[ids[i]].x + getRadius(nodes, ids[i])]),
     minY |-> SeqMin([i \in DOMAIN ids |-> globalTargets[ids[i]].y - getRadius(nodes, ids[i])]),
     maxY |-> SeqMax([i \in DOMAIN ids |-> globalTargets[ids[i]].y + getRadius(nodes, ids[i])])]
BoxOf(i) == TiledBox(CoreComponents[i])
BoxesApart(a, b) ==
    a.maxX < b.minX \/ b.maxX < a.minX \/ a.maxY < b.minY \/ b.maxY < a.minY
\* component i would end beyond the width left when put after the cursor
Exceeds(cursorX, i) ==
    cursorX + (BoxOf(i).maxX - BoxOf(i).minX) + Px(componentGap)
        > graphWidth - Div(Px(componentGap), 2)
\* the lower edge of the tallest component in the row of component i, up to i
RowBottom(i) ==
    CHOOSE m \in {BoxOf(k).maxY : k \in {j \in 1 .. i : BoxOf(j).minY = BoxOf(i).minY}} :
        \A k \in {j \in 1 .. i : BoxOf(j).minY = BoxOf(i).minY} : BoxOf(k).maxY <= m
SameRow(i) ==
    /\ BoxOf(i + 1).minY = BoxOf(i).minY
    /\ BoxOf(i + 1).minX = BoxOf(i).maxX + Px(componentGap)
NewRow(i) ==
    /\ BoxOf(i + 1).minX = Px(componentGap)
    /\ BoxOf(i + 1).minY > RowBottom(i) + Px(componentGap)
\* C23: after the tiling of force-align the boxes of two different components are
\* apart; the components follow each other left to right in component order, one
\* starts a new row exactly when it would end beyond the container width less the
\* gap, and a new row starts below the tallest component of the row before
TilingApart ==
    Tiled =>
        /\ \A i, j \in DOMAIN CoreComponents : i # j => BoxesApart(BoxOf(i), BoxOf(j))
        /\ BoxOf(1).minX = Px(componentGap)
        /\ \A i \in 1 .. (Len(CoreComponents) - 1) :
              IF Exceeds(BoxOf(i).maxX + Px(componentGap), i + 1)
              THEN NewRow(i) ELSE SameRow(i)
TilingApartWitness ==
    /\ Tiled
    /\ Len(CoreComponents) >= 3
    /\ \E i \in 1 .. (Len(CoreComponents) - 1) : NewRow(i) /\ ~SameRow(i)
    /\ \E i \in 1 .. (Len(CoreComponents) - 1) : SameRow(i)

\* spread has just computed its targets; the nodes are still where they were
SpreadHanded == fn = "spread" /\ pc = "animating"
DiagramCentre == Pt(Div(graphWidth, 2), Div(graphHeight, 2))
\* the mean of a map of points over the members of a component
Centroid(m, members) ==
    Pt(Div(SeqSum([i \in DOMAIN members |-> m[members[i]].x]), Len(members)),
       Div(SeqSum([i \in DOMAIN members |-> m[members[i]].y]), Len(members)))
\* the middle of the arc of component i: the arcs follow each other from -pi/2
ArcMiddle(i) ==
    SeqSum([k \in 1 .. (i - 1) |-> placed[k].angleSpan]) - HalfPi + Div(placed[i].angleSpan, 2)
\* the distance of the placed centres from the middle of the diagram
OrbitOf(i) == Dist(placed[i].center, DiagramCentre)
\* rounding allowance: two units of length, a hundredth of a radian at 500 px
LengthSlack == 2 * Unit
AngleSlack == Div(TrigScale, 100)
\* C24: in the targets of spread the distance between any two nodes of one component
\* is their distance before the call, and the centroid of the component's targets lies
\* at the middle angle of its arc, at the orbit radius from the middle of the diagram
SpreadRigid ==
    SpreadHanded =>
        \A i \in DOMAIN placed :
            /\ \A a, b \in Range(placed[i].members) :
                  Abs(Dist(targets[a], targets[b]) - Dist(pos[a], pos[b])) <= LengthSlack
            /\ Dist(Centroid(targets, placed[i].members), placed[i].center) <= LengthSlack
            /\ AngleGap(AngleTo(DiagramCentre, Centroid(targets, placed[i].members)),
                        normalizeAngle(ArcMiddle(i))) <= AngleSlack
            /\ \A j \in DOMAIN placed : Abs(OrbitOf(i) - OrbitOf(j)) <= LengthSlack
SpreadRigidWitness ==
    /\ SpreadHanded
    /\ \E i \in DOMAIN placed :
          \E a, b \in Range(placed[i].members) :
              /\ a # b
              /\ targets[a] # pos[a]
              /\ targets[b].x - targets[a].x # pos[b].x - pos[a].x

SpreadGap == Px(50)
MaxComponentRadius == SeqMax([i \in DOMAIN placed |-> placed[i].radius])
OrbitFloor == MaxComponentRadius + SpreadGap + Px(40)
TotalSpan == SeqSum([i \in DOMAIN placed |-> placed[i].radius * 2 + SpreadGap])
\* the circumference radius of the total span
SpanRadius == Div(TotalSpan * TrigScale, TwoPi)
\* every arc is the share of its component in the total span; together a full circle,
\* up to one unit of angle lost per component by rounding down
ArcsShareCircle ==
    /\ \A i \in DOMAIN placed :
          placed[i].angleSpan = Div((placed[i].radius * 2 + SpreadGap) * TwoPi, TotalSpan)
    /\ Abs(SeqSum([i \in DOMAIN placed |-> placed[i].angleSpan]) - TwoPi) <= Len(placed)
\* C25: the orbit radius of spread is the total span over 2 pi, clamped between
\* max component radius + gap + 40 and 520: never below the former, never above the
\* latter; the arcs are the (diameter + gap) shares and sum to a full circle
OrbitClamped ==
    SpreadHanded =>
        /\ \A i \in DOMAIN placed :
              /\ Abs(OrbitOf(i) - Min(Max(SpanRadius, OrbitFloor), Px(520))) <= LengthSlack
              /\ OrbitOf(i) >= OrbitFloor - LengthSlack
              /\ OrbitOf(i) <= Px(520) + LengthSlack
        /\ ArcsShareCircle
\* the orbit radius as computed: 240 at least, 520 at most, whatever the radii
OrbitAsComputed ==
    SpreadHanded =>
        /\ \A i \in DOMAIN placed :
              /\ Abs(OrbitOf(i) - Min(Max(Max(SpanRadius, OrbitFloor), Px(240)), Px(520)))
                     <= LengthSlack
              /\ OrbitOf(i) <= Px(520) + LengthSlack
        /\ ArcsShareCircle
\* the cap of 520 wins over the floor taken from the largest component
OrbitBelowFloor ==
    SpreadHanded => \A i \in DOMAIN placed : OrbitOf(i) >= OrbitFloor - LengthSlack

\* force-align has handed its targets to the animation
ForceAlignHanded == fn = "forceAlign" /\ pc = "animating"
\* the attributes whose owner is an entity of the graph
OwnedAttributes ==
    {a \in IdSet(nodes) : /\ TypeOf(nodes, a) = "attribute"
                          /\ TypeOf(nodes, NodeOf(nodes, a).parentEntity) = "entity"}
OwnerOf(a) == NodeOf(nodes, a).parentEntity
\* entity radius + largest attribute radius + 8
RingOf(eid) ==
    getRadius(nodes, eid)
        + SeqMax([i \in DOMAIN AttrsOf(nodes, eid) |-> getRadius(nodes, AttrsOf(nodes, eid)[i])])
        + Px(8)
OnOwnerRing(m, a) == Abs(Dist(m[a], m[OwnerOf(a)]) - RingOf(OwnerOf(a))) <= LengthSlack
\* C26: in the targets handed over by force-align every attribute of an entity lies
\* at entity radius + largest attribute radius + 8 from the final target of its
\* entity, on the main chain or off it
AttributesOnRing ==
    ForceAlignHanded => \A a \in OwnedAttributes : OnOwnerRing(handed, a)
\* the same right after the attributes were placed, before the overlap resolution
AttributesPlacedOnRing ==
    (fn = "forceAlign" /\ pc = "resolve" /\ iter.resolve = 0)
        => \A a \in OwnedAttributes : OnOwnerRing(globalTargets, a)

\* ------------------------------------------------------------ the animation driver
MaxAnimCalls == 2
SpreadDuration == 450
DefaultDuration == 800
FitPadding == 40
\* the time from one animation frame to the next, in ms
FrameGaps == {400}
\* the inputs of the animation: one node, one component, three components
AnimScenarios == {[shape |-> k, place |-> 3, size |-> 1] : k \in {2, 6, 7}}
\* elapsed / duration in thousandths, without the cap at 1
RawProgressUncapped(elapsed, duration) == Div(elapsed * ZoomScale, duration)
\* elapsed / duration, at most 1, in thousandths
RawProgress(elapsed, duration) == Min(Div(elapsed * ZoomScale, duration), ZoomScale)
\* 1 - (1 - p)^3 and 1 - (1 - p)^4
Eased(raw, easing) ==
    LET rest == ZoomScale - raw
        square == Div(rest * rest, ZoomScale)
    IN IF easing = "easeOutQuart" THEN ZoomScale - Div(square * square, ZoomScale)
       ELSE ZoomScale - Div(square * rest, ZoomScale)
\* start + (target - start) * progress
Interpolate(start, target, progress) == start + Div((target - start) * progress, ZoomScale)
\* a callback waiting for its animation frame
StepFrame(id, tg, duration) ==
    [fn |-> "step", id |-> id, targets |-> tg, startPositions |-> pos, startTime |-> now,
     duration |-> duration, easing |-> "easeOutCubic", from |-> matrix, to |-> matrix]
FitFrame(id, duration, easing, to) ==
    [fn |-> "animate", id |-> id, targets |-> EmptyMap, startPositions |-> EmptyMap,
     startTime |-> now, duration |-> duration, easing |-> easing, from |-> matrix, to |-> to]
\* the calls that were given an onFinish callback and have not seen it run
Pending ==
    {i \in DOMAIN started : started[i] # "fit" /\ \A k \in DOMAIN finished : finished[k] # i}
\* everything an animation leaves alone
AnimUnchanged ==
    UNCHANGED <<scn, nodes, edges, seed, pc, fn, round, calls, iter, entityPositions,
                targets, relAnchors, relPositions, baseRing, systemRadius, adjustPasses,
                globalTargets, sideHint, mainChainIds, mainAnchorPos, chainPos,
                pushLog, placed, handed, finishCalls, firstOut, args, returned, editVars>>

\* animateNodesToTargets(graph, targets, duration, onFinish) up to its return: onFinish
\* at once without a live graph or without targets, else the first frame is requested
animateNodesToTargets(g, tg, duration, id) ==
    IF g = "null" \/ destroyed \/ DOMAIN tg = {}
    THEN /\ finished' = Append(finished, id)
         /\ UNCHANGED <<autoPaint, frameQueue>>
    ELSE /\ autoPaint' = FALSE
         /\ frameQueue' = Append(frameQueue, StepFrame(id, tg, duration))
         /\ UNCHANGED finished
\* the same, requesting the first frame whatever the state of the graph
animateAlways(g, tg, duration, id) ==
    /\ autoPaint' = FALSE
    /\ frameQueue' = Append(frameQueue, StepFrame(id, tg, duration))
    /\ UNCHANGED finished

\* spreadDisconnectedComponents(graph, onFinish)
SpreadCall ==
    /\ Len(started) < MaxAnimCalls
    /\ started' = Append(started, "spread")
    /\ \E g \in {"graph", "null"} :
          IF g = "null" \/ destroyed
          THEN /\ finished' = Append(finished, Len(started) + 1)
               /\ UNCHANGED <<autoPaint, frameQueue>>
          ELSE \E res \in {spreadDisconnectedComponents(nodes, edges, pos)} :
                  IF res.noop
                  THEN /\ finished' = Append(finished, Len(started) + 1)
                       /\ UNCHANGED <<autoPaint, frameQueue>>
                  ELSE animateNodesToTargets(g, res.targets, SpreadDuration, Len(started) + 1)
    /\ UNCHANGED <<pos, destroyed, matrix, painted, now>>
    /\ AnimUnchanged

\* target maps a caller may hand over: none, one node, and one with an id that is no
\* node of the graph
Moved(ids) == [id \in ids |-> Pt(pos[id].x + Px(100), pos[id].y - Px(50))]
GhostId == Len(nodes) + 1
TargetChoices ==
    {EmptyMap, Moved({nodes[1].id}), [id \in {nodes[1].id, GhostId} |-> Pt(Px(100), Px(100))]}
\* animateNodesToTargets called by a layout function
AnimateCall ==
    /\ Len(started) < MaxAnimCalls
    /\ started' = Append(started, "animate")
    /\ \E g \in {"graph", "null"}, tg \in TargetChoices :
          animateNodesToTargets(g, tg, DefaultDuration, Len(started) + 1)
    /\ UNCHANGED <<pos, destroyed, matrix, painted, now>>
    /\ AnimUnchanged

\* the zoom and offset that put the content in the middle of the container
FitTarget(ns, p) ==
    LET ids == NodeIds(ns)
        minX == SeqMin([i \in DOMAIN ids |-> BBox(ns, p, ids[i]).minX])
        maxX == SeqMax([i \in DOMAIN ids |-> BBox(ns, p, ids[i]).maxX])
        minY == SeqMin([i \in DOMAIN ids |-> BBox(ns, p, ids[i]).minY])
        maxY == SeqMax([i \in DOMAIN ids |-> BBox(ns, p, ids[i]).maxY])
        scaleX == Div((graphWidth - Px(FitPadding) * 2) * ZoomScale, maxX - minX)
        scaleY == Div((graphHeight - Px(FitPadding) * 2) * ZoomScale, maxY - minY)
        targetZoom == Min(scaleX, scaleY)
    IN [zoom |-> targetZoom,
        x |-> Div(graphWidth, 2) - Div(Div(minX + maxX, 2) * targetZoom, ZoomScale),
        y |-> Div(graphHeight, 2) - Div(Div(minY + maxY, 2) * targetZoom, ZoomScale)]
\* smoothFitView(graph, duration, easing) up to its return; without nodes it leaves the
\* fit to graph.fitView, which has nothing to fit
SmoothFitCall ==
    /\ Len(started) < MaxAnimCalls
    /\ started' = Append(started, "fit")
    /\ \E g \in {"graph", "null"}, easing \in {"easeOutCubic", "easeOutQuart"} :
          IF g = "null" \/ destroyed \/ nodes = <<>>
          THEN UNCHANGED frameQueue
          ELSE frameQueue' = Append(frameQueue,
                                    FitFrame(Len(started) + 1, DefaultDuration, easing,
                                             FitTarget(nodes, pos)))
    /\ UNCHANGED <<pos, destroyed, autoPaint, matrix, painted, now, finished>>
    /\ AnimUnchanged

\* step(currentTime) on a live graph: every target's node is moved along, the graph is
\* painted, then either the next frame is requested or the animation ends; everyFrame
\* set, onFinish runs in each frame
StepBody(cb, currentTime, everyFrame) ==
    LET rawProgress == RawProgress(currentTime - cb.startTime, cb.duration)
        progress == Eased(rawProgress, "easeOutCubic")
    IN /\ pos' = [id \in DOMAIN pos |->
                     IF Has(cb.targets, id)
                     THEN Pt(Interpolate(cb.startPositions[id].x, cb.targets[id].x, progress),
                             Interpolate(cb.startPositions[id].y, cb.targets[id].y, progress))
                     ELSE pos[id]]
       /\ painted' = painted + 1
       /\ IF rawProgress < ZoomScale
          THEN /\ frameQueue' = Append(Tail(frameQueue), cb)
               /\ autoPaint' = autoPaint
               /\ finished' = IF everyFrame THEN Append(finished, cb.id) ELSE finished
          ELSE /\ frameQueue' = Tail(frameQueue)
               /\ autoPaint' = TRUE
               /\ finished' = Append(finished, cb.id)
       /\ UNCHANGED matrix
\* step(currentTime) without the test of graph.destroyed
StepRunAnyway(cb, currentTime) == StepBody(cb, currentTime, FALSE)
\* step(currentTime) calling onFinish in every frame
StepRunFinishEach(cb, currentTime) ==
    IF destroyed
    THEN /\ frameQueue' = Tail(frameQueue)
         /\ UNCHANGED <<pos, autoPaint, matrix, painted, finished>>
    ELSE StepBody(cb, currentTime, TRUE)
\* step(currentTime) of animateNodesToTargets
StepRun(cb, currentTime) ==
    IF destroyed
    THEN /\ frameQueue' = Tail(frameQueue)
         /\ UNCHANGED <<pos, autoPaint, matrix, painted, finished>>
    ELSE StepBody(cb, currentTime, FALSE)
\* animate(currentTime) of smoothFitView; 1 - (1 - p)^n is below 1 exactly when p is
AnimateRun(cb, currentTime) ==
    IF destroyed
    THEN /\ frameQueue' = Tail(frameQueue)
         /\ UNCHANGED <<pos, autoPaint, matrix, painted, finished>>
    ELSE LET rawProgress == RawProgress(currentTime - cb.startTime, cb.duration)
             progress == Eased(rawProgress, cb.easing)
         IN /\ matrix' = [zoom |-> Interpolate(cb.from.zoom, cb.to.zoom, progress),
                          x |-> Interpolate(cb.from.x, cb.to.x, progress),
                          y |-> Interpolate(cb.from.y, cb.to.y, progress)]
            /\ painted' = painted + 1
            /\ frameQueue' = IF rawProgress < ZoomScale THEN Append(Tail(frameQueue), cb)
                             ELSE Tail(frameQueue)
            /\ UNCHANGED <<pos, autoPaint, finished>>
\* the browser runs the oldest requested callback at the time of the next frame
StepFrameRun ==
    /\ frameQueue # <<>>
    /\ Head(frameQueue).fn = "step"
    /\ \E gap \in FrameGaps :
          /\ now' = now + gap
          /\ StepRun(Head(frameQueue), now + gap)
    /\ UNCHANGED <<destroyed, started>>
    /\ AnimUnchanged
FitFrameRun ==
    /\ frameQueue # <<>>
    /\ Head(frameQueue).fn = "animate"
    /\ \E gap \in FrameGaps :
          /\ now' = now + gap
          /\ AnimateRun(Head(frameQueue), now + gap)
    /\ UNCHANGED <<destroyed, started>>
    /\ AnimUnchanged
\* graph.destroy() on teardown of the diagram
Destroy ==
    /\ ~destroyed
    /\ destroyed' = TRUE
    /\ UNCHANGED <<pos, autoPaint, matrix, painted, frameQueue, now, started, finished>>
    /\ AnimUnchanged

AnimInit ==
    /\ scn \in AnimScenarios
    /\ LayoutInit
    /\ NoEdit
    /\ args = NoArgs
    /\ returned = <<>>
    /\ NoAnimation
AnimNext ==
    \/ SpreadCall
    \/ AnimateCall
    \/ SmoothFitCall
    \/ StepFrameRun
    \/ FitFrameRun
    \/ Destroy
AnimSpec == AnimInit /\ [][AnimNext]_vars
\* requested frames are run: the browser does not leave a callback waiting for ever
AnimFairSpec == AnimSpec /\ WF_vars(StepFrameRun) /\ WF_vars(FitFrameRun)

\* a frame callback runs in this step
FrameRuns == frameQueue # <<>> /\ now' # now
\* C27: once the graph is destroyed, a frame of animateNodesToTargets or of
\* smoothFitView moves no node, leaves the view matrix alone, does not paint, requests
\* no further frame and does not call onFinish
CancelledOnTeardown ==
    [][(destroyed /\ FrameRuns)
          => /\ pos' = pos
             /\ matrix' = matrix
             /\ painted' = painted
             /\ autoPaint' = autoPaint
             /\ finished' = finished
             /\ frameQueue' = Tail(frameQueue)]_vars
\* both kinds of frame were dropped after the teardown
CancelledOnTeardownWitness ==
    /\ destroyed
    /\ frameQueue = <<>>
    /\ Pending # {}
    /\ painted > 0
    /\ \E i \in DOMAIN started : started[i] = "fit"

\* no call has seen its onFinish run twice
FinishedOnce == \A i, j \in DOMAIN finished : i # j => finished[i] # finished[j]
\* a call of spreadDisconnectedComponents is made in this step
SpreadCalled == Len(started') > Len(started) /\ started'[Len(started')] = "spread"
\* the call returns early: destroyed graph, fewer than two nodes or than two components
ReturnsEarly ==
    \/ destroyed
    \/ Len(nodes) < 2
    \/ Len(SortedWalk(nodes, edges).components) < 2
SpreadSafety ==
    /\ []FinishedOnce
    /\ [][SpreadCalled =>
             IF ReturnsEarly \/ frameQueue' = frameQueue
             THEN finished' = Append(finished, Len(started')) /\ frameQueue' = frameQueue
             ELSE finished' = finished]_vars
\* C28: onFinish of spreadDisconnectedComponents runs exactly once for every call: at
\* once on every early return, and otherwise eventually, whatever happens to the graph
SpreadFinishesOnce ==
    /\ SpreadSafety
    /\ \A i \in 1 .. MaxAnimCalls :
          (i \in Pending /\ started[i] = "spread") ~> (i \notin Pending)
\* C28 as it holds: at once on every early return, never twice, and otherwise
\* eventually unless the graph is destroyed before the last frame; after the teardown
\* a pending onFinish never runs
SpreadFinishesUnlessDestroyed ==
    /\ SpreadSafety
    /\ \A i \in 1 .. MaxAnimCalls :
          (i \in Pending /\ started[i] = "spread") ~> (i \notin Pending \/ destroyed)
    /\ [][(destroyed /\ FrameRuns) => finished' = finished]_vars
SpreadFinishesUnlessDestroyedWitness ==
    /\ ~destroyed
    /\ now > 0
    /\ \E i \in DOMAIN started : started[i] = "spread" /\ i \notin Pending
    /\ pos # StartPos(nodes, scn.place)

\* the last frame of an animation of node positions on a live graph
LastStep ==
    /\ FrameRuns
    /\ Head(frameQueue).fn = "step"
    /\ ~destroyed
    /\ now' - Head(frameQueue).startTime >= Head(frameQueue).duration
\* a call of animateNodesToTargets by a layout function is made in this step
AnimateCalled == Len(started') > Len(started) /\ started'[Len(started')] = "animate"
\* the last frame puts every node with a target on it and ends the animation
LastStepEnds ==
    LastStep =>
        /\ \A id \in DOMAIN pos :
              pos'[id] = IF Has(Head(frameQueue).targets, id)
                         THEN Head(frameQueue).targets[id] ELSE pos[id]
        /\ autoPaint'
        /\ finished' = Append(finished, Head(frameQueue).id)
        /\ \A k \in DOMAIN finished : finished[k] # Head(frameQueue).id
        /\ \A k \in DOMAIN frameQueue' : frameQueue'[k].id # Head(frameQueue).id
\* an earlier frame moves only nodes with a target and does not call onFinish
EarlierStepGoesOn ==
    (FrameRuns /\ Head(frameQueue).fn = "step" /\ ~LastStep)
        => /\ finished' = finished
           /\ \A id \in DOMAIN pos : Has(Head(frameQueue).targets, id) \/ pos'[id] = pos[id]
\* the call itself moves nothing; it requests a frame only for a non-empty target map
\* and otherwise runs onFinish at once
CallWithoutTargets ==
    AnimateCalled =>
        /\ pos' = pos
        /\ IF frameQueue' = frameQueue
           THEN finished' = Append(finished, Len(started'))
           ELSE /\ finished' = finished
                /\ DOMAIN frameQueue'[Len(frameQueue')].targets # {}
\* C29: in the last frame of animateNodesToTargets on a live graph every node with a
\* target is put exactly on it, the other nodes stay, auto-paint is switched on and
\* onFinish runs, for the first time and with no later frame of this animation; a call
\* with an empty target map runs onFinish at once and moves nothing
AnimationPostcondition ==
    /\ []FinishedOnce
    /\ [][LastStepEnds /\ EarlierStepGoesOn /\ CallWithoutTargets]_vars
AnimationPostconditionWitness ==
    /\ ~destroyed
    /\ autoPaint
    /\ \E i \in DOMAIN started : started[i] = "animate" /\ i \notin Pending
    /\ \E a, b \in DOMAIN pos : /\ pos[a] # StartPos(nodes, scn.place)[a]
                                /\ pos[b] = StartPos(nodes, scn.place)[b]

\* ------------------------------------------------------------ editor.js
MaxSessions == 3
MaxTimers == 2
EditNodes == {1, 2}
\* character codes of the space and of 'x'
Values == {<<>>, <<32>>, <<120>>, <<32, 120>>, <<120, 32>>}
\* String.prototype.trim on these values
RECURSIVE TrimStart(_)
TrimStart(v) == IF v # <<>> /\ Head(v) = 32 THEN TrimStart(Tail(v)) ELSE v
RECURSIVE TrimEnd(_)
TrimEnd(v) == IF v # <<>> /\ v[Len(v)] = 32 THEN TrimEnd(SubSeq(v, 1, Len(v) - 1)) ELSE v
Trim(v) == TrimEnd(TrimStart(v))
\* the closure state of setupNodeDoubleClickEdit together with the DOM and the labels
EditState == [editingNode |-> editingNode, editInput |-> editInput,
              container |-> container, labels |-> labels]
\* finishEditing(save) on a state
finishEditing(save, st) ==
    IF st.editingNode = 0 \/ st.editInput = 0 THEN st
    ELSE [editingNode |-> 0,
          editInput |-> 0,
          container |-> [e \in DOMAIN st.container \ {st.editInput} |-> st.container[e]],
          labels |-> IF save /\ Trim(st.container[st.editInput].value) # <<>>
                     THEN [st.labels EXCEPT
                              ![st.editingNode] = Trim(st.container[st.editInput].value)]
                     ELSE st.labels]
\* finishEditing(save) that writes the label whatever save says
finishEditingSaving(save, st) == finishEditing(TRUE, st)
\* startEditing(node, model): a new input with the node's label, attached and focused
startEditing(node, st) ==
    [editingNode |-> node,
     editInput |-> Len(sessions) + 1,
     container |-> [e \in DOMAIN st.container \cup {Len(sessions) + 1} |->
                       IF e = Len(sessions) + 1
                       THEN [value |-> st.labels[node], focused |-> TRUE]
                       ELSE [st.container[e] EXCEPT !.focused = FALSE]],
     labels |-> st.labels]
\* the closure state, the DOM and the labels become st; the open edit, if it ended,
\* is recorded as ended by how
Becomes(st, how) ==
    /\ editingNode' = st.editingNode
    /\ editInput' = st.editInput
    /\ container' = st.container
    /\ labels' = st.labels
    /\ sessions' = IF editInput # 0 /\ st.editInput # editInput
                   THEN [sessions EXCEPT ![editInput].end = how] ELSE sessions
EditUnchanged ==
    UNCHANGED <<scn, nodes, edges, pos, seed, pc, fn, round, calls, iter, entityPositions,
                targets, relAnchors, relPositions, baseRing, systemRadius, adjustPasses,
                globalTargets, sideHint, mainChainIds, mainAnchorPos, chainPos,
                pushLog, placed, handed, finishCalls, firstOut, args, returned, animVars>>

\* graph.on('node:dblclick'): an open edit is dropped, then the node is edited
DblClick ==
    /\ Len(sessions) < MaxSessions
    /\ \E node \in EditNodes :
          \E st \in {startEditing(node, IF editingNode # 0 THEN finishEditing(FALSE, EditState)
                                        ELSE EditState)} :
             /\ editingNode' = st.editingNode
             /\ editInput' = st.editInput
             /\ container' = st.container
             /\ labels' = st.labels
             /\ sessions' = Append(IF editInput # 0
                                   THEN [sessions EXCEPT ![editInput].end = "dblclick"]
                                   ELSE sessions,
                                   [node |-> node, end |-> "open"])
    /\ UNCHANGED timers
    /\ EditUnchanged
\* the user types into the focused input
TypeText ==
    /\ editInput # 0
    /\ container[editInput].focused
    /\ \E v \in Values : container' = [container EXCEPT ![editInput].value = v]
    /\ UNCHANGED <<editingNode, editInput, labels, timers, sessions>>
    /\ EditUnchanged
\* keydown on the input: Enter saves, Escape cancels
PressEnter ==
    /\ editInput # 0
    /\ container[editInput].focused
    /\ Becomes(finishEditing(TRUE, EditState), "enter")
    /\ UNCHANGED timers
    /\ EditUnchanged
PressEscape ==
    /\ editInput # 0
    /\ container[editInput].focused
    /\ Becomes(finishEditing(FALSE, EditState), "escape")
    /\ UNCHANGED timers
    /\ EditUnchanged
\* blur of the input: finishEditing(true) is set to run 100 ms later
Blur ==
    /\ editInput # 0
    /\ container[editInput].focused
    /\ Len(timers) < MaxTimers
    /\ container' = [container EXCEPT ![editInput].focused = FALSE]
    /\ timers' = Append(timers, editInput)
    /\ UNCHANGED <<editingNode, editInput, labels, sessions>>
    /\ EditUnchanged
\* the user clicks into the input again
FocusInput ==
    /\ editInput # 0
    /\ ~container[editInput].focused
    /\ container' = [container EXCEPT ![editInput].focused = TRUE]
    /\ UNCHANGED <<editingNode, editInput, labels, timers, sessions>>
    /\ EditUnchanged
\* graph.on('canvas:click')
CanvasClick ==
    /\ Becomes(IF editingNode # 0 THEN finishEditing(TRUE, EditState) ELSE EditState, "click")
    /\ UNCHANGED timers
    /\ EditUnchanged
\* the oldest timeout runs: finishEditing(true) on whatever is under edit by then
TimerFire ==
    /\ timers # <<>>
    /\ timers' = Tail(timers)
    /\ Becomes(finishEditing(TRUE, EditState), "timer")
    /\ EditUnchanged

EditInit ==
    /\ scn = CHOOSE s \in Scenarios : TRUE
    /\ LayoutInit
    /\ NoAnimation
    /\ args = NoArgs
    /\ returned = <<>>
    /\ editingNode = 0
    /\ editInput = 0
    /\ container = EmptyMap
    /\ labels = [n \in EditNodes |-> <<96 + n>>]
    /\ timers = <<>>
    /\ sessions = <<>>
EditNext ==
    \/ DblClick
    \/ TypeText
    \/ PressEnter
    \/ PressEscape
    \/ Blur
    \/ FocusInput
    \/ CanvasClick
    \/ TimerFire
EditSpec == EditInit /\ [][EditNext]_vars

\* isEditing()
isEditing == editingNode # 0
\* at most one input exists, and isEditing() is true exactly while one does
OneInput ==
    /\ Cardinality(DOMAIN container) <= 1
    /\ isEditing <=> DOMAIN container # {}
\* the timeout set by the blur of an input that is no longer the one under edit
StaleTimer == timers # <<>> /\ timers' = Tail(timers) /\ Head(timers) # editInput
\* a stale timeout ends no edit and writes no label
StaleTimerIdle ==
    StaleTimer => /\ editInput' = editInput
                  /\ editingNode' = editingNode
                  /\ container' = container
                  /\ labels' = labels
\* an edit ended by Escape in this step
Escaped ==
    \E k \in DOMAIN sessions : sessions[k].end = "open" /\ sessions'[k].end = "escape"
EscapeKeepsLabels == Escaped => labels' = labels
\* C30: at most one edit input exists at any time, isEditing() is true exactly while
\* one exists, the finish delayed by the blur of one edit's input never ends an edit
\* started later nor writes a label to its node, and Escape changes no label
EditSessionsIsolated ==
    /\ []OneInput
    /\ [][StaleTimerIdle /\ EscapeKeepsLabels]_vars
\* what holds of it: one input at most, isEditing() as stated, Escape changes no label
EditSessionsOtherwise ==
    /\ []OneInput
    /\ [][EscapeKeepsLabels]_vars


====
